---- MODULE Spec2Model ----
(***************************************************************************)
(* Model of ParserChain (src/src/parsers/parser-chain.ts): the registry of *)
(* parsers, one execute() call over a chain configuration, and            *)
(* mergeResults() calls over a list of parse results.                      *)
(*                                                                         *)
(* JavaScript objects are modelled with explicit references: a ParseResult *)
(* is a reference into `heap`, an array of results is a reference into     *)
(* `arrays`.  A string built from a template is the tuple of its parts.    *)
(***************************************************************************)
EXTENDS Integers, Sequences, FiniteSets, TLC

\* ---------------------------------------------------------------- bounds
MaxEntries == 3     \* longest config.parsers list explored
MaxWeight  == 1     \* a declared weight is one of 1..MaxWeight
MaxRecords == 3     \* most records in the results passed to mergeResults
MaxPartial == 2     \* most records when each record varies in many fields
MaxLength  == 4     \* longest description

\* ---------------------------------------------------------------- inputs
\* two of the parsers the CLI registers (commands/parse.ts:41-43); the chain
\* only compares parser names, and config entries may repeat a name
ParserNames == {"storybook", "comments"}

\* message carried by whatever a parser throws
ErrorMessages == {"boom"}

\* a ParserConfig entry.  hasWeight = FALSE is an entry without `weight`
\* (weight is then held at 0); a declared weight of 0 sorts like an undeclared
\* one (0 || 0), so declared weights are explored from 1.  The weight of a
\* disabled entry is never read, so disabled entries are explored without one.
ParserConfigs ==
    { p \in [name : ParserNames, enabled : BOOLEAN,
             hasWeight : BOOLEAN, weight : 0..MaxWeight] :
        /\ p.hasWeight <=> p.weight # 0
        /\ ~p.enabled => ~p.hasWeight }

RECURSIVE SeqsUpTo(_, _)
SeqsUpTo(S, n) ==
    IF n = 0 THEN { <<>> }
    ELSE LET shorter == SeqsUpTo(S, n - 1)
         IN  shorter \cup { Append(s, x) : s \in { t \in shorter : Len(t) = n - 1 }, x \in S }

\* ParserChainConfig: { parsers, continueOnError } (mergeStrategy is not read by execute)
ParserChainConfigs ==
    [parsers : SeqsUpTo(ParserConfigs, MaxEntries), continueOnError : BOOLEAN]

\* ----------------------------------------------------------------- state
VARIABLES
    parsers,         \* this.parsers: Map<string, ComponentParser>, as its keys in insertion order
    pc,              \* position of the execute() call
    config,          \* the `config` argument of execute()
    enabledParsers,  \* const enabledParsers (filtered, sorted entries)
    i,               \* position of the for..of loop in enabledParsers
    arrays,          \* array objects: arrays[1] is `results`, the others are previousResults copies
    heap,            \* ParseResult objects by reference
    returnedAs,      \* ghost: each ParseResult as its parser returned it
    diagnostics,     \* const diagnostics: Diagnostic[]
    calls,           \* ghost: the canParse / parse invocations made, in order
    outcome,         \* what the caller of execute() observes
    mpc,             \* position of the mergeResults() call
    mergeArgs,       \* the `results` and `strategy` arguments of mergeResults()
    objects,         \* ComponentAnalysis objects by reference: the records of `results`, then the entities
    componentMap,    \* const componentMap: Map<string, ComponentAnalysis>, as [key, ref] in insertion order
    pos,             \* position of the two nested for..of loops, as an index into the records in order
    outputs,         \* ghost: what each mergeResults() call returned, as values
    tools,           \* Agent.tools: the registered AgentTool names, in order
    apc,             \* position of the sendMessage() / processMessage() call
    messages,        \* message.messages of the request, as the roles of its entries
    toolChoice,      \* message.tool_choice of the request
    depth,           \* the `depth` argument of the processMessage() activation
    tokens,          \* the `tokens` argument
    actions,         \* the `actions` argument, then `messageActions`
    pending,         \* the tool calls of the answer, each with the state of its handler
    completion,      \* const res: the chat completion of the activation
    answer,          \* what processMessage() resolved to
    requests,        \* ghost: number of chat.completions.create calls made
    invocations,     \* ghost: number of AgentTool.handle calls made
    runs,            \* the execute() calls in flight on one ParserChain, by call
    resultArrays,    \* the `results` array of each call, as references into produced
    produced,        \* ParseResult objects by reference, each with the call that made it (ghost)
    handed           \* ghost: every previousResults snapshot handed to a parser

chainVars == <<parsers, pc, config, enabledParsers, i, arrays, heap, returnedAs,
               diagnostics, calls, outcome>>
mergeVars == <<mpc, mergeArgs, objects, componentMap, pos, outputs>>
agentVars == <<tools, apc, messages, toolChoice, depth, tokens, actions, pending, completion, answer,
               requests, invocations>>
runVars   == <<runs, resultArrays, produced, handed>>
vars == <<chainVars, mergeVars, agentVars, runVars>>

\* what an action of one part leaves alone
outsideExecute == <<mergeVars, agentVars, runVars>>
outsideMerge   == <<chainVars, agentVars, runVars>>
outsideAgent   == <<chainVars, mergeVars, runVars>>
outsideRuns    == <<chainVars, mergeVars, agentVars>>

ResultsRef == 1      \* the array object bound to `results`
results == arrays[ResultsRef]

\* ------------------------------------------------------------ registry
\* Map.prototype.set: a new key goes last, an existing key keeps its place
MapSet(keys, k) ==
    IF \E n \in 1..Len(keys) : keys[n] = k THEN keys ELSE Append(keys, k)

MapHas(keys, k) == \E n \in 1..Len(keys) : keys[n] = k

registerParser(name) ==
    /\ pc = "idle"
    /\ parsers' = MapSet(parsers, name)
    /\ UNCHANGED <<pc, config, enabledParsers, i, arrays, heap, returnedAs,
                   diagnostics, calls, outcome>>
    /\ UNCHANGED outsideExecute

\* --------------------------------------------------- selection and order
\* (a.weight || 0)
WeightOrZero(p) == IF p.hasWeight /\ p.weight # 0 THEN p.weight ELSE 0

\* the sort comparator (a, b) => (a.weight || 0) - (b.weight || 0)
Compare(a, b) == WeightOrZero(a) - WeightOrZero(b)

\* config.parsers with every entry tagged by its position (the entry's identity)
Declared(ps) ==
    [n \in 1..Len(ps) |->
        [idx |-> n, name |-> ps[n].name, enabled |-> ps[n].enabled,
         hasWeight |-> ps[n].hasWeight, weight |-> ps[n].weight]]

\* faulty variant: e goes in front of the elements it ties with
InsertUnstable(sorted, e) ==
    LET before == { n \in 1..Len(sorted) : Compare(sorted[n], e) < 0 }
        k == Cardinality(before)
    IN  SubSeq(sorted, 1, k) \o <<e>> \o SubSeq(sorted, k + 1, Len(sorted))

\* insert e behind every element that does not compare greater than e
InsertSorted(sorted, e) ==
    LET before == { n \in 1..Len(sorted) : Compare(sorted[n], e) <= 0 }
        k == Cardinality(before)
    IN  SubSeq(sorted, 1, k) \o <<e>> \o SubSeq(sorted, k + 1, Len(sorted))

\* Array.prototype.sort with the comparator above (a stable sort)
RECURSIVE SortByWeight(_)
SortByWeight(s) ==
    IF s = <<>> THEN <<>>
    ELSE InsertSorted(SortByWeight(SubSeq(s, 1, Len(s) - 1)), s[Len(s)])

\* faulty variant: the enabled flag is not looked at
IsSelectedThoughDisabled(p, reg) == MapHas(reg, p.name)

\* (pc) => pc.enabled && this.parsers.has(pc.name)
IsSelected(p, reg) == p.enabled /\ MapHas(reg, p.name)

\* faulty variant: the selection is taken registry-first (the entries of the
\* first registered parser, then those of the second, ...) and then sorted
RECURSIVE ByRegistration(_, _)
ByRegistration(ds, reg) ==
    IF reg = <<>> THEN <<>>
    ELSE SelectSeq(ds, LAMBDA p : p.enabled /\ p.name = Head(reg))
         \o ByRegistration(ds, Tail(reg))

SelectEnabledByRegistration(ps, reg) == SortByWeight(ByRegistration(Declared(ps), reg))

\* config.parsers.filter(...).sort(...).map(...)
SelectEnabled(ps, reg) ==
    SortByWeight(SelectSeq(Declared(ps), LAMBDA p : IsSelected(p, reg)))

\* ------------------------------------------------------------- execute
\* shape of an entry of the call log
NoCall == [op |-> "none", idx |-> 0, name |-> "", out |-> "", prev |-> 0, res |-> 0]

\* a ParserChain just constructed, no execute() call made yet
NoExecute ==
    /\ parsers = <<>>
    /\ pc = "idle"
    /\ config = [parsers |-> <<>>, continueOnError |-> TRUE]
    /\ enabledParsers = <<>>
    /\ i = 1
    /\ arrays = << <<>> >>
    /\ heap = <<>>
    /\ returnedAs = <<>>
    /\ diagnostics = <<>>
    /\ calls = <<>>
    /\ outcome = [kind |-> "none", value |-> 0, message |-> <<>>]

\* no mergeResults() call made
NoMerge ==
    /\ mpc = "idle"
    /\ mergeArgs = [results |-> <<>>, strategy |-> "merge"]
    /\ objects = <<>>
    /\ componentMap = <<>>
    /\ pos = 1
    /\ outputs = <<>>

\* an Agent just constructed with the default `tools = []`: lines 35-62
NoAgent ==
    /\ tools = <<>>
    /\ apc = "idle"
    /\ messages = <<>>
    /\ toolChoice = "unset"
    /\ depth = 0
    /\ tokens = 0
    /\ actions = <<>>
    /\ pending = <<>>
    /\ completion = [content |-> "", tool_calls |-> <<>>, usage |-> <<>>]
    /\ answer = [role |-> "none", content |-> "", tool_calls |-> <<>>]
    /\ requests = 0
    /\ invocations = 0

\* no concurrent execute() calls started
NoRuns ==
    /\ runs = <<>>
    /\ resultArrays = <<>>
    /\ produced = <<>>
    /\ handed = {}

Init == NoExecute /\ NoMerge /\ NoAgent /\ NoRuns

\* entry of execute(): lines 40-50
ExecuteStart ==
    /\ pc = "idle"
    /\ \E cfg \in ParserChainConfigs :
          /\ config' = cfg
          /\ enabledParsers' = SelectEnabled(cfg.parsers, parsers)
    /\ i' = 1
    /\ pc' = "loop"
    /\ UNCHANGED <<parsers, arrays, heap, returnedAs, diagnostics, calls, outcome>>
    /\ UNCHANGED outsideExecute

\* faulty variant: the failure is recorded as a warning
FailureDiagnosticAsWarning(name, msg) ==
    [level |-> "warning", message |-> <<"Parser ", name, " failed: ", msg>>, source |-> name]

\* the error-level Diagnostic of the catch block: lines 100-104
FailureDiagnostic(name, msg) ==
    [level |-> "error", message |-> <<"Parser ", name, " failed: ", msg>>, source |-> name]

\* the Error thrown when continueOnError is false: lines 113-115
ChainError(name, diag) ==
    [kind |-> "thrown", value |-> 0,
     message |-> <<"Parser chain failed at ", name, ": ">> \o diag.message]

\* faulty variant: previousResults is `results` itself
PreviousResultsAlias(resultsRef, fresh) == resultsRef

\* previousResults: [...results] is a new array object, not `results` itself
PreviousResultsRef(resultsRef, fresh) == fresh

\* faulty variant: only the first chain diagnostic is kept
WithFirstChainDiagnostic(result, diags) ==
    [result EXCEPT !.hasDiagnostics = TRUE,
                   !.diagnostics = (IF result.hasDiagnostics THEN result.diagnostics ELSE <<>>)
                                   \o <<diags[1]>>]

\* lastResult.diagnostics = [...(lastResult.diagnostics || []), ...diagnostics]
WithChainDiagnostics(result, diags) ==
    [result EXCEPT !.hasDiagnostics = TRUE,
                   !.diagnostics = (IF result.hasDiagnostics THEN result.diagnostics ELSE <<>>) \o diags]

\* faulty variants: the diagnostics go to the first result / to every result
AttachToFirstResult(h, res, diags) ==
    IF Len(diags) > 0 /\ Len(res) > 0
    THEN [h EXCEPT ![res[1]] = WithChainDiagnostics(h[res[1]], diags)]
    ELSE h

AttachToEveryResult(h, res, diags) ==
    IF Len(diags) > 0 /\ Len(res) > 0
    THEN [r \in 1..Len(h) |->
            IF \E k \in 1..Len(res) : res[k] = r THEN WithChainDiagnostics(h[r], diags) ELSE h[r]]
    ELSE h

\* lines 120-127: where the chain-level diagnostics go once the loop is over
AttachDiagnostics(h, res, diags) ==
    IF Len(diags) > 0 /\ Len(res) > 0
    THEN [h EXCEPT ![res[Len(res)]] = WithChainDiagnostics(h[res[Len(res)]], diags)]
    ELSE h

\* faulty variants of the catch block: continueOnError is not looked at
\* (always abort / always continue), or the failed entry is tried again
CatchAndAbort(entry, msg) ==
    LET diagnostic == FailureDiagnostic(entry.name, msg)
    IN  /\ diagnostics' = Append(diagnostics, diagnostic)
        /\ pc' = "thrown"
        /\ outcome' = ChainError(entry.name, diagnostic)
        /\ i' = i

CatchAndContinue(entry, msg) ==
    LET diagnostic == FailureDiagnostic(entry.name, msg)
    IN  /\ diagnostics' = Append(diagnostics, diagnostic)
        /\ pc' = "loop"
        /\ outcome' = outcome
        /\ i' = i + 1

CatchAndRetry(entry, msg) ==
    LET diagnostic == FailureDiagnostic(entry.name, msg)
    IN  /\ diagnostics' = Append(diagnostics, diagnostic)
        /\ IF ~config.continueOnError
           THEN /\ pc' = "thrown"
                /\ outcome' = ChainError(entry.name, diagnostic)
                /\ i' = i
           ELSE /\ pc' = "loop"
                /\ outcome' = outcome
                /\ i' = i

\* the catch block, lines 92-117: the failed entry is left behind or the call aborts
Catch(entry, msg) ==
    LET diagnostic == FailureDiagnostic(entry.name, msg)
    IN  /\ diagnostics' = Append(diagnostics, diagnostic)
        /\ IF ~config.continueOnError
           THEN /\ pc' = "thrown"
                /\ outcome' = ChainError(entry.name, diagnostic)
                /\ i' = i
           ELSE /\ pc' = "loop"
                /\ outcome' = outcome
                /\ i' = i + 1

\* one turn of the for..of loop up to its await: lines 58-83
\* can is what parser.canParse(context) does: "true", "false" or "throw"
CallParser(can, msg) ==
    /\ pc = "loop"
    /\ i <= Len(enabledParsers)
    /\ LET entry == enabledParsers[i]
           call  == [NoCall EXCEPT !.op = "canParse", !.idx = entry.idx,
                                   !.name = entry.name, !.out = can]
       IN  CASE can = "false" ->
                  /\ calls' = Append(calls, call)
                  /\ i' = i + 1
                  /\ UNCHANGED <<pc, arrays, diagnostics, outcome>>
             [] can = "throw" ->
                  /\ calls' = Append(calls, call)
                  /\ Catch(entry, msg)
                  /\ UNCHANGED arrays
             [] can = "true" ->
                  LET fresh == Len(arrays) + 1
                      prev  == PreviousResultsRef(ResultsRef, fresh)
                      grown == IF prev > Len(arrays) THEN Append(arrays, <<>>) ELSE arrays
                  IN  /\ arrays' = [grown EXCEPT ![prev] = arrays[ResultsRef]]
                      /\ calls' = calls \o <<call,
                             [NoCall EXCEPT !.op = "parse", !.idx = entry.idx,
                                            !.name = entry.name, !.out = "pending",
                                            !.prev = prev]>>
                      /\ pc' = "awaiting"
                      /\ UNCHANGED <<i, diagnostics, outcome>>
    /\ UNCHANGED <<parsers, config, enabledParsers, heap, returnedAs>>
    /\ UNCHANGED outsideExecute

\* ParseResult.diagnostics is optional: the "comments" parser is taken to report
\* a warning of its own, the "storybook" parser to leave the field undefined
OwnDiagnostics(name) ==
    IF name = "comments"
    THEN [has |-> TRUE,  list |-> <<[level |-> "warning", message |-> <<"note">>, source |-> name]>>]
    ELSE [has |-> FALSE, list |-> <<>>]

\* the ParseResult object a parser's parse() resolves to
NewParseResult(name) ==
    [parser |-> name, components |-> <<name>>,
     hasDiagnostics |-> OwnDiagnostics(name).has, diagnostics |-> OwnDiagnostics(name).list]

\* `await parser.parse(parserContext)` resolves: lines 83-84
ParseResolves ==
    /\ pc = "awaiting"
    /\ LET entry  == enabledParsers[i]
           result == NewParseResult(entry.name)
           ref    == Len(heap) + 1
       IN  /\ heap' = Append(heap, result)
           /\ returnedAs' = Append(returnedAs, result)
           /\ arrays' = [arrays EXCEPT ![ResultsRef] = Append(@, ref)]
           /\ calls' = [calls EXCEPT ![Len(calls)].out = "ok", ![Len(calls)].res = ref]
    /\ i' = i + 1
    /\ pc' = "loop"
    /\ UNCHANGED <<parsers, config, enabledParsers, diagnostics, outcome>>
    /\ UNCHANGED outsideExecute

\* `await parser.parse(parserContext)` rejects: lines 83, 92-117
ParseRejects(msg) ==
    /\ pc = "awaiting"
    /\ calls' = [calls EXCEPT ![Len(calls)].out = "fail"]
    /\ Catch(enabledParsers[i], msg)
    /\ UNCHANGED <<parsers, config, enabledParsers, arrays, heap, returnedAs>>
    /\ UNCHANGED outsideExecute

\* after the loop: lines 120-129
ExecuteReturn ==
    /\ pc = "loop"
    /\ i > Len(enabledParsers)
    /\ heap' = AttachDiagnostics(heap, results, diagnostics)
    /\ outcome' = [kind |-> "returned", value |-> ResultsRef, message |-> <<>>]
    /\ pc' = "returned"
    /\ UNCHANGED <<parsers, config, enabledParsers, i, arrays, returnedAs, diagnostics, calls>>
    /\ UNCHANGED outsideExecute

Next ==
    \/ \E name \in ParserNames : registerParser(name)
    \/ ExecuteStart
    \/ \E can \in {"true", "false", "throw"}, msg \in ErrorMessages : CallParser(can, msg)
    \/ ParseResolves
    \/ \E msg \in ErrorMessages : ParseRejects(msg)
    \/ ExecuteReturn

Spec == Init /\ [][Next]_vars

\* ================================================================ claims
\* vocabulary of the claims, read off the call log
CanParseCalls == SelectSeq(calls, LAMBDA c : c.op = "canParse")
ParseCalls    == SelectSeq(calls, LAMBDA c : c.op = "parse")
Failed(c)     == c.out \in {"throw", "fail"}
FailedCalls   == SelectSeq(calls, LAMBDA c : Failed(c))
OkCalls       == SelectSeq(calls, LAMBDA c : c.op = "parse" /\ c.out = "ok")

\* the weight an entry of config.parsers declares, 0 when it declares none
DeclaredWeight(idx) ==
    IF config.parsers[idx].hasWeight THEN config.parsers[idx].weight ELSE 0

\* position of a parser in the registry (registration order)
RegisteredAt(name) == CHOOSE n \in 1..Len(parsers) : parsers[n] = name

SelectedEntries ==
    { n \in 1..Len(config.parsers) :
        config.parsers[n].enabled /\ \E r \in 1..Len(parsers) : parsers[r] = config.parsers[n].name }

\* ---------------------------------------------------------------- C1
\* C1: execute invokes the selected parsers in ascending weight order; entries
\* of equal weight are invoked in the order they are declared in
\* config.parsers; once execute returns, every selected entry was invoked.
C1_AscendingWeightStable ==
    LET cs == CanParseCalls
    IN  /\ \A m, n \in 1..Len(cs) :
              m < n =>
                \/ DeclaredWeight(cs[m].idx) < DeclaredWeight(cs[n].idx)
                \/ /\ DeclaredWeight(cs[m].idx) = DeclaredWeight(cs[n].idx)
                   /\ cs[m].idx < cs[n].idx
        /\ pc = "returned" => { cs[m].idx : m \in 1..Len(cs) } = SelectedEntries

\* a finished call over three entries in which the weights move a later entry
\* forward and two entries tie
C1_Witness ==
    /\ pc = "returned"
    /\ Len(CanParseCalls) = 3
    /\ CanParseCalls[1].idx > CanParseCalls[2].idx
    /\ DeclaredWeight(CanParseCalls[2].idx) = DeclaredWeight(CanParseCalls[3].idx)

\* ---------------------------------------------------------------- C2
\* C2 as stated: of two parsers of equal weight, the one registered first is
\* invoked first.
C2_TiesByRegistrationOrder ==
    LET cs == CanParseCalls
    IN  \A m, n \in 1..Len(cs) :
            ( /\ m < n
              /\ cs[m].name # cs[n].name
              /\ DeclaredWeight(cs[m].idx) = DeclaredWeight(cs[n].idx) )
            => RegisteredAt(cs[m].name) < RegisteredAt(cs[n].name)

\* C2 (amended): of two parsers of equal weight, the one whose entry comes
\* first in config.parsers is invoked first, whatever the order in which the
\* two were passed to registerParser.
C2_TiesByDeclarationOrder ==
    LET cs == CanParseCalls
    IN  \A m, n \in 1..Len(cs) :
            (m < n /\ DeclaredWeight(cs[m].idx) = DeclaredWeight(cs[n].idx))
            => cs[m].idx < cs[n].idx

\* two parsers of equal weight were invoked, the one registered later first
C2_Witness ==
    LET cs == CanParseCalls
    IN  \E m, n \in 1..Len(cs) :
            /\ m < n
            /\ cs[m].name # cs[n].name
            /\ DeclaredWeight(cs[m].idx) = DeclaredWeight(cs[n].idx)
            /\ RegisteredAt(cs[m].name) > RegisteredAt(cs[n].name)

\* ---------------------------------------------------------------- C3
\* C3: parse is invoked only for an entry that is enabled, whose name is
\* registered, and whose canParse has just returned true; a disabled entry and
\* an enabled entry of an unregistered name are not invoked at all; a canParse
\* that returns false is followed by no parse of that entry; none of the three
\* adds a diagnostic or raises an error (diagnostics and errors come from
\* failures only).
C3_ParseOnlyWhenGated ==
    /\ { calls[k].idx : k \in 1..Len(calls) } \subseteq SelectedEntries
    /\ \A k \in 1..Len(calls) :
          /\ config.parsers[calls[k].idx].name = calls[k].name
          /\ calls[k].op = "parse" =>
                /\ k > 1
                /\ calls[k - 1].op = "canParse"
                /\ calls[k - 1].idx = calls[k].idx
                /\ calls[k - 1].out = "true"
          /\ (calls[k].op = "canParse" /\ calls[k].out = "false" /\ k < Len(calls)) =>
                /\ calls[k + 1].op = "canParse"
                /\ calls[k + 1].idx # calls[k].idx
    /\ Len(diagnostics) = Len(FailedCalls)
    /\ pc = "thrown" => Len(calls) > 0 /\ Failed(calls[Len(calls)])

\* a finished call whose config held a disabled entry and an enabled entry of
\* an unregistered name, and in which a canParse returned false
C3_Witness ==
    /\ pc = "returned"
    /\ \E n \in 1..Len(config.parsers) : ~config.parsers[n].enabled
    /\ \E n \in 1..Len(config.parsers) :
          config.parsers[n].enabled /\ n \notin SelectedEntries
    /\ \E k \in 1..Len(calls) : calls[k].op = "canParse" /\ calls[k].out = "false"
    /\ diagnostics = <<>>

\* ---------------------------------------------------------------- C4
\* the array execute() returned
Returned == arrays[outcome.value]

\* C4: with continueOnError = true execute never throws, and the sequence it
\* returns holds, in execution order, exactly one result for every selected
\* entry whose canParse returned true and whose parse succeeded.
C4_ContinueOnErrorKeepsOthers ==
    config.continueOnError =>
        /\ pc # "thrown"
        /\ pc = "returned" =>
              /\ outcome.kind = "returned"
              /\ LET oks == OkCalls
                 IN  /\ Len(Returned) = Len(oks)
                     /\ \A k \in 1..Len(oks) :
                           /\ Returned[k] = oks[k].res
                           /\ heap[Returned[k]].parser = oks[k].name
                     /\ \A k, l \in 1..Len(oks) : k # l => oks[k].idx # oks[l].idx
              /\ \A e \in SelectedEntries :
                    Cardinality({ k \in 1..Len(calls) :
                                    calls[k].op = "canParse" /\ calls[k].idx = e }) = 1

\* a finished call of three parsers: one failed, the two others contributed,
\* one of them after the failure
C4_Witness ==
    /\ pc = "returned"
    /\ config.continueOnError
    /\ Len(OkCalls) = 2
    /\ \E k, l \in 1..Len(calls) :
          k < l /\ Failed(calls[k]) /\ calls[l].op = "parse" /\ calls[l].out = "ok"

\* ---------------------------------------------------------------- C5
\* C5: with continueOnError = false a failure is the last thing the call does:
\* it is the last invocation in the log, execute has thrown an error whose
\* message names the failing parser, and no array is returned.
C5_AbortOnFirstFailure ==
    (pc # "idle" /\ ~config.continueOnError) =>
        /\ \A k \in 1..Len(calls) :
              Failed(calls[k]) =>
                /\ k = Len(calls)
                /\ pc = "thrown"
                /\ outcome.kind = "thrown"
                /\ outcome.value = 0
                /\ \E j \in 1..Len(outcome.message) : outcome.message[j] = calls[k].name
        /\ pc = "thrown" => Len(calls) > 0 /\ Failed(calls[Len(calls)])
        /\ outcome.kind = "returned" => FailedCalls = <<>>

\* the call was aborted with a result already produced and a parser still to run
C5_Witness ==
    /\ pc = "thrown"
    /\ Len(results) >= 1
    /\ i < Len(enabledParsers)

\* ---------------------------------------------------------------- C6
\* the error-level diagnostics the caller finds in the returned results, in order
RECURSIVE ErrorsIn(_)
ErrorsIn(refs) ==
    IF refs = <<>> THEN <<>>
    ELSE SelectSeq(heap[Head(refs)].diagnostics, LAMBDA d : d.level = "error")
         \o ErrorsIn(Tail(refs))

\* diagnostic d reports the failure of call c
Reports(d, c) ==
    /\ d.level = "error"
    /\ d.source = c.name
    /\ \E j \in 1..Len(d.message) : d.message[j] = c.name
    /\ \E j \in 1..Len(d.message) : d.message[j] \in ErrorMessages

EveryFailureReported ==
    LET errors   == ErrorsIn(Returned)
        failures == FailedCalls
    IN  /\ Len(errors) = Len(failures)
        /\ \A k \in 1..Len(failures) : Reports(errors[k], failures[k])

\* C6 as stated: with continueOnError = true, every failure of the call is an
\* error-level diagnostic in the returned results, whatever the number and
\* position of the failures.
C6_EveryFailureObservable ==
    (pc = "returned" /\ config.continueOnError) => EveryFailureReported

\* C6 (amended): with continueOnError = true, every failure of a call in which
\* at least one parser succeeded is an error-level diagnostic, naming the
\* parser and carrying its message, in the returned results; when no parser
\* succeeded the returned sequence is empty.
C6_FailuresObservableWhenAResultExists ==
    (pc = "returned" /\ config.continueOnError) =>
        IF OkCalls # <<>> THEN EveryFailureReported ELSE Returned = <<>>

\* a finished call with a failure before and a failure after its one success
C6_Witness ==
    /\ pc = "returned"
    /\ config.continueOnError
    /\ \E k, l, m \in 1..Len(calls) :
          /\ k < l /\ l < m
          /\ Failed(calls[k]) /\ Failed(calls[m])
          /\ calls[l].op = "parse" /\ calls[l].out = "ok"

\* ---------------------------------------------------------------- C7
\* position in the log of the parse call that produced the r-th result
ProducedAt(r) == CHOOSE k \in 1..Len(calls) : calls[k].op = "parse" /\ calls[k].res = results[r]

ErrorsOf(ref) == SelectSeq(heap[ref].diagnostics, LAMBDA d : d.level = "error")

\* C7 as stated: each failure's diagnostic sits on the result produced most
\* recently before the failure, and is dropped when there was none.
C7_AttachedToMostRecentResult ==
    (pc = "returned" /\ config.continueOnError) =>
        \A r \in 1..Len(results) :
            Len(ErrorsOf(results[r])) =
                Cardinality({ k \in 1..Len(calls) :
                                /\ Failed(calls[k])
                                /\ k > ProducedAt(r)
                                /\ r < Len(results) => k < ProducedAt(r + 1) })

\* C7 (amended): with continueOnError = true the diagnostics of all failures of
\* the call are attached, in failure order, to the last result of the returned
\* sequence, i.e. the result of the last parser that succeeded in the whole
\* call, whether it ran before or after the failure; no other result receives
\* one, and they are dropped only if no parser succeeded in the whole call.
C7_AttachedToLastReturnedResult ==
    (pc = "returned" /\ config.continueOnError) =>
        \A r \in 1..Len(results) :
            IF r = Len(results)
            THEN LET errors   == ErrorsOf(results[r])
                     failures == FailedCalls
                 IN  /\ Len(errors) = Len(failures)
                     /\ \A k \in 1..Len(failures) : Reports(errors[k], failures[k])
            ELSE ErrorsOf(results[r]) = <<>>

\* a finished call: a success, then a failure, then another success
C7_Witness ==
    /\ pc = "returned"
    /\ config.continueOnError
    /\ Len(results) = 2
    /\ \E k \in 1..Len(calls) :
          Failed(calls[k]) /\ ProducedAt(1) < k /\ k < ProducedAt(2)

\* ---------------------------------------------------------------- C8
\* the results of the parse calls that had succeeded before the k-th invocation
ResultsBefore(k) ==
    LET oks == SelectSeq(SubSeq(calls, 1, k - 1), LAMBDA c : c.op = "parse" /\ c.out = "ok")
    IN  [j \in 1..Len(oks) |-> oks[j].res]

\* C8: the previousResults handed to a parser is, then and at every later
\* moment, exactly the sequence of the results of the parse calls that
\* succeeded before it, in execution order.
C8_PreviousResultsSnapshot ==
    \A k \in 1..Len(calls) :
        calls[k].op = "parse" => arrays[calls[k].prev] = ResultsBefore(k)

\* the second of three successful parsers got a one-result snapshot that is
\* still one result long after the third result was appended
C8_Witness ==
    \E k \in 1..Len(calls) :
        /\ calls[k].op = "parse"
        /\ Len(arrays[calls[k].prev]) = 1
        /\ Len(results) = 3

\* ---------------------------------------------------------------- C9
ParseCallsOfName(name) ==
    { k \in 1..Len(calls) : calls[k].op = "parse" /\ calls[k].name = name }

\* C9 as stated: no parser has parse invoked more than once in one execute call.
C9_EachParserParsedOnce ==
    \A name \in ParserNames : Cardinality(ParseCallsOfName(name)) <= 1

\* C9 (amended): no entry of config.parsers has canParse or parse invoked more
\* than once in one execute call (a failed parse is never retried); a parser
\* has parse invoked at most once for each enabled entry that names it.
C9_EachEntryParsedOnce ==
    /\ \A k, l \in 1..Len(calls) :
          (calls[k].op = calls[l].op /\ calls[k].idx = calls[l].idx) => k = l
    /\ \A name \in ParserNames :
          Cardinality(ParseCallsOfName(name)) <=
            Cardinality({ e \in 1..Len(config.parsers) :
                            config.parsers[e].enabled /\ config.parsers[e].name = name })

\* a parser named by two enabled entries was parsed twice, the first time failing
C9_Witness ==
    \E k, l \in 1..Len(calls) :
        /\ k < l
        /\ calls[k].op = "parse" /\ calls[k].out = "fail"
        /\ calls[l].op = "parse" /\ calls[l].name = calls[k].name

\* --------------------------------------------------------------- C10
\* C10 as stated: a result object always has the fields its parser returned.
C10_ResultsNeverMutated ==
    \A ref \in 1..Len(heap) : heap[ref] = returnedAs[ref]

\* C10 (amended): a result object has the fields its parser returned, except
\* that when execute returns after at least one failure the last result of the
\* returned sequence has the call's diagnostics appended to its own; no other
\* result and no other field changes, and nothing changes while parsers run or
\* when execute throws.
C10_OnlyLastResultDiagnosticsExtended ==
    \A ref \in 1..Len(heap) :
        /\ heap[ref].parser = returnedAs[ref].parser
        /\ heap[ref].components = returnedAs[ref].components
        /\ heap[ref] # returnedAs[ref] =>
              /\ pc = "returned"
              /\ ref = results[Len(results)]
              /\ diagnostics # <<>>
              /\ heap[ref].hasDiagnostics
              /\ heap[ref].diagnostics = returnedAs[ref].diagnostics \o diagnostics

\* execute returned after a parser that had been handed the last result in its
\* previousResults failed
C10_Witness ==
    /\ pc = "returned"
    /\ \E k \in 1..Len(calls) :
          /\ calls[k].op = "parse" /\ calls[k].out = "fail"
          /\ \E j \in 1..Len(arrays[calls[k].prev]) :
                arrays[calls[k].prev][j] = results[Len(results)]

\* ============================================================ mergeResults
\* ------------------------------------------------------------- JS values
\* a string is the tuple of its characters; `undefined` where a string is expected
UndefinedName == <<"<undefined>">>

\* an optional string field of an object literal: the key is missing, or the key
\* holds undefined, or it holds a string ("" is the empty string)
Absent    == "<absent>"
Undefined == "<undefined>"

\* an optional array field: None when undefined, Some(list) otherwise
None      == <<>>
Some(v)   == <<v>>
IsSome(o) == o # <<>>
Get(o)    == o[1]

\* String.prototype.toLowerCase, one character at a time (line 145)
LowerChar(c) == IF c = "B" THEN "b" ELSE c
ToLowerCase(s) == [k \in 1..Len(s) |-> LowerChar(s[k])]

\* JS truthiness of a string value: undefined and '' are falsy
Truthy(v) == v \notin {Absent, Undefined, ""}
\* truthiness of a string kept as a tuple of characters
TruthyChars(s) == s # <<>> /\ s # UndefinedName

\* faulty variant: b || a
OrElseReversed(a, b) == IF Truthy(b) THEN b ELSE a

\* a || b on optional string fields
OrElse(a, b) == IF Truthy(a) THEN a ELSE b
\* x || [] on an optional array (lines 253, 258, 284, 302, 317, 325, 330)
OrEmpty(o) == IF IsSome(o) THEN Get(o) ELSE <<>>

\* Array.from(new Set(list)): first occurrences, in order (lines 253-254)
RECURSIVE ArrayFromSet(_)
ArrayFromSet(list) ==
    IF list = <<>> THEN <<>>
    ELSE LET front == ArrayFromSet(SubSeq(list, 1, Len(list) - 1))
             last  == list[Len(list)]
         IN  IF \E k \in 1..Len(front) : front[k] = last THEN front ELSE Append(front, last)

\* a Map<key, value> kept as the sequence of its [key, value] entries in
\* insertion order; set() of a present key keeps the entry's position
EntryHas(map, key) == \E k \in 1..Len(map) : map[k].key = key
EntryGet(map, key) == map[CHOOSE k \in 1..Len(map) : map[k].key = key].value
\* faulty variant: set() of a present key moves the entry to the end
EntrySetMovingToEnd(map, key, value) ==
    Append(SelectSeq(map, LAMBDA e : e.key # key), [key |-> key, value |-> value])

EntrySet(map, key, value) ==
    IF EntryHas(map, key)
    THEN [k \in 1..Len(map) |-> IF map[k].key = key THEN [key |-> key, value |-> value] ELSE map[k]]
    ELSE Append(map, [key |-> key, value |-> value])
\* Array.from(map.values())
EntryValues(map) == [k \in 1..Len(map) |-> map[k].value]

\* { ...a, ...b } on two objects with the same optional string fields: a key
\* that b carries wins, also when b holds undefined under it
SpreadField(a, b) == IF b = Absent THEN a ELSE b

\* ------------------------------------------------------- field policies
\* faulty variant: any other non-empty new description replaces
mergeDescriptionsNewest(existing, newDesc) ==
    IF ~TruthyChars(existing) THEN (IF TruthyChars(newDesc) THEN newDesc ELSE <<>>)
    ELSE IF ~TruthyChars(newDesc) THEN existing
    ELSE newDesc

\* faulty variant: a description exactly 1.5 times as long already replaces
mergeDescriptionsAtLeast(existing, newDesc) ==
    IF ~TruthyChars(existing) THEN (IF TruthyChars(newDesc) THEN newDesc ELSE <<>>)
    ELSE IF ~TruthyChars(newDesc) THEN existing
    ELSE IF existing = newDesc THEN existing
    ELSE IF 2 * Len(newDesc) >= 3 * Len(existing) THEN newDesc
    ELSE existing

\* mergeDescriptions: lines 239-250; length * 1.5 compared in integers
mergeDescriptions(existing, newDesc) ==
    IF ~TruthyChars(existing) THEN (IF TruthyChars(newDesc) THEN newDesc ELSE <<>>)
    ELSE IF ~TruthyChars(newDesc) THEN existing
    ELSE IF existing = newDesc THEN existing
    ELSE IF 2 * Len(newDesc) > 3 * Len(existing) THEN newDesc
    ELSE existing

\* mergeTags: lines 252-255
mergeTags(existing, newTags) ==
    Some(ArrayFromSet(OrEmpty(existing) \o OrEmpty(newTags)))

\* faulty variant: the two lists are concatenated without the Set
mergeDependenciesConcatenated(existing, newDeps) ==
    Some(OrEmpty(existing) \o OrEmpty(newDeps))

\* mergeDependencies: lines 316-319
mergeDependencies(existing, newDeps) ==
    Some(ArrayFromSet(OrEmpty(existing) \o OrEmpty(newDeps)))

\* mergeRelatedComponents: lines 321-327
mergeRelatedComponents(existing, newRelated) ==
    Some(ArrayFromSet(OrEmpty(existing) \o OrEmpty(newRelated)))

\* the object the merged prop becomes: lines 270-274
MergedProp(existingProp, prop) ==
    [name         |-> SpreadField(existingProp.name, prop.name),
     type         |-> SpreadField(existingProp.type, prop.type),
     required     |-> SpreadField(existingProp.required, prop.required),
     defaultValue |-> SpreadField(existingProp.defaultValue, prop.defaultValue),
     description  |-> LET d == OrElse(prop.description, existingProp.description)
                      IN  IF d = Absent THEN Undefined ELSE d]

\* propMap after the forEach over the first k items of list: lines 264, 267-278
RECURSIVE PropMapAfter(_, _, _)
PropMapAfter(propMap, list, k) ==
    IF k = 0 THEN propMap
    ELSE LET before == PropMapAfter(propMap, list, k - 1)
             prop   == list[k]
         IN  IF EntryHas(before, prop.name)
             THEN EntrySet(before, prop.name, MergedProp(EntryGet(before, prop.name), prop))
             ELSE EntrySet(before, prop.name, prop)

\* existing.forEach((prop) => propMap.set(prop.name, prop)): line 264
RECURSIVE MapByName(_, _)
MapByName(list, k) ==
    IF k = 0 THEN <<>> ELSE EntrySet(MapByName(list, k - 1), list[k].name, list[k])

\* faulty variant: `return newProps` without the `|| []` default
mergePropsWithoutDefault(existing, newProps) ==
    IF ~IsSome(existing) THEN newProps
    ELSE IF ~IsSome(newProps) THEN existing
    ELSE Some(EntryValues(PropMapAfter(MapByName(Get(existing), Len(Get(existing))),
                                       Get(newProps), Len(Get(newProps)))))

\* mergeProps: lines 257-281
mergeProps(existing, newProps) ==
    IF ~IsSome(existing) THEN Some(OrEmpty(newProps))
    ELSE IF ~IsSome(newProps) THEN existing
    ELSE Some(EntryValues(PropMapAfter(MapByName(Get(existing), Len(Get(existing))),
                                       Get(newProps), Len(Get(newProps)))))

\* the object the merged slot becomes: line 292
MergedSlot(existingSlot, slot) ==
    [name        |-> SpreadField(existingSlot.name, slot.name),
     description |-> SpreadField(existingSlot.description, slot.description),
     required    |-> SpreadField(existingSlot.required, slot.required)]

\* slotMap after the forEach over the first k items of list: lines 289-296
RECURSIVE SlotMapAfter(_, _, _)
SlotMapAfter(slotMap, list, k) ==
    IF k = 0 THEN slotMap
    ELSE LET before == SlotMapAfter(slotMap, list, k - 1)
             slot   == list[k]
         IN  IF EntryHas(before, slot.name)
             THEN EntrySet(before, slot.name, MergedSlot(EntryGet(before, slot.name), slot))
             ELSE EntrySet(before, slot.name, slot)

\* mergeSlots: lines 283-299
mergeSlots(existing, newSlots) ==
    IF ~IsSome(existing) THEN Some(OrEmpty(newSlots))
    ELSE IF ~IsSome(newSlots) THEN existing
    ELSE Some(EntryValues(SlotMapAfter(MapByName(Get(existing), Len(Get(existing))),
                                       Get(newSlots), Len(Get(newSlots)))))

\* a Map filled from list where a key already present is left alone: lines 306-311, 334-340
RECURSIVE FirstSeen(_, _, _)
FirstSeen(map, keyed, k) ==
    IF k = 0 THEN map
    ELSE LET before == FirstSeen(map, keyed, k - 1)
         IN  IF EntryHas(before, keyed[k].key) THEN before
             ELSE EntrySet(before, keyed[k].key, keyed[k].value)

\* exampleMap.set(ex.title, ex) over the existing examples: line 306
RECURSIVE MapByTitle(_, _)
MapByTitle(list, k) ==
    IF k = 0 THEN <<>> ELSE EntrySet(MapByTitle(list, k - 1), list[k].title, list[k])

\* mergeExamples: lines 301-314
mergeExamples(existing, newExamples) ==
    IF ~IsSome(existing) THEN Some(OrEmpty(newExamples))
    ELSE IF ~IsSome(newExamples) THEN existing
    ELSE LET keyed == [k \in 1..Len(Get(newExamples)) |->
                          [key |-> Get(newExamples)[k].title, value |-> Get(newExamples)[k]]]
         IN  Some(EntryValues(FirstSeen(MapByTitle(Get(existing), Len(Get(existing))),
                                        keyed, Len(keyed))))

\* `${item.type}:${item.value}`: lines 334, 336
A11yKey(item) == item.type \o <<":">> \o item.value

\* a11yMap.set(key, item) over the existing items: line 334
RECURSIVE MapByA11yKey(_, _)
MapByA11yKey(list, k) ==
    IF k = 0 THEN <<>> ELSE EntrySet(MapByA11yKey(list, k - 1), A11yKey(list[k]), list[k])

\* mergeAccessibility: lines 329-343
mergeAccessibility(existing, newA11y) ==
    IF ~IsSome(existing) THEN Some(OrEmpty(newA11y))
    ELSE IF ~IsSome(newA11y) THEN existing
    ELSE LET keyed == [k \in 1..Len(Get(newA11y)) |->
                          [key |-> A11yKey(Get(newA11y)[k]), value |-> Get(newA11y)[k]]]
         IN  Some(EntryValues(FirstSeen(MapByA11yKey(Get(existing), Len(Get(existing))),
                                        keyed, Len(keyed))))


\* ------------------------------------------------------------ customData
\* customData: Record<string, any>, by the keys mergeResults reads and writes:
\* the record's own keys (`own`), `parsers`, `<parser>_data` (`data`, by parser),
\* `previousData`, `<parser>_contribution` (`contribution`, by parser)
EmptyCustomData ==
    [own |-> <<>>, parsers |-> None, data |-> <<>>, previousData |-> None, contribution |-> <<>>]

\* what `...x.customData` spreads: nothing when customData is undefined
SpreadOf(customData) == IF IsSome(customData) THEN Get(customData) ELSE EmptyCustomData

\* entries of a then entries of b, a key of b replacing the same key of a
RECURSIVE SpreadEntries(_, _, _)
SpreadEntries(a, b, k) ==
    IF k = 0 THEN a ELSE EntrySet(SpreadEntries(a, b, k - 1), b[k].key, b[k].value)

\* { ...existing.customData, ...component.customData }: lines 215-216
SpreadCustomData(a, b) ==
    [own          |-> SpreadEntries(a.own, b.own, Len(b.own)),
     parsers      |-> IF IsSome(b.parsers) THEN b.parsers ELSE a.parsers,
     data         |-> SpreadEntries(a.data, b.data, Len(b.data)),
     previousData |-> IF IsSome(b.previousData) THEN b.previousData ELSE a.previousData,
     contribution |-> SpreadEntries(a.contribution, b.contribution, Len(b.contribution))]

\* --------------------------------------------------------- mergeResults
\* the records of `results` in the order of the two nested loops (lines 143-144),
\* each with the parser of its result
RECURSIVE RecordsOf(_)
RecordsOf(rs) ==
    IF rs = <<>> THEN <<>>
    ELSE [k \in 1..Len(rs[1].components) |-> [parser |-> rs[1].parser, ref |-> rs[1].components[k]]]
         \o RecordsOf(Tail(rs))

\* const key = component.name.toLowerCase(): line 145
KeyOf(component) == ToLowerCase(component.name)

\* faulty variant: the record itself becomes the entity
SeedRefAlias(componentRef, fresh) == componentRef

\* { ...component, customData: ... } is a new object, not the record: lines 149-150
SeedRef(componentRef, fresh) == fresh

\* faulty variant: the seed does not list its parser
SeededWithoutParser(component, parser) ==
    [component EXCEPT !.customData = Some([SpreadOf(component.customData) EXCEPT !.parsers = Some(<<>>)])]

\* the entity a first occurrence seeds: lines 149-155
SeededEntity(component, parser) ==
    [component EXCEPT !.customData =
        Some([SpreadOf(component.customData) EXCEPT !.parsers = Some(<<parser>>)])]

\* the customData `append` assigns to the existing entity: lines 162-169
AppendedCustomData(existing, componentRef, parser) ==
    Some([SpreadOf(existing.customData) EXCEPT
            !.data    = EntrySet(@, parser, componentRef),
            !.parsers = Some(Append(OrEmpty(SpreadOf(existing.customData).parsers), parser))])

\* faulty variant: the existing entity is not retained
OverridingWithoutSnapshot(component, existingRef, parser) ==
    [component EXCEPT !.customData =
        Some([SpreadOf(component.customData) EXCEPT !.parsers = Some(<<parser>>)])]

\* the entity `override` puts in place of the existing one: lines 174-181
OverridingEntity(component, existingRef, parser) ==
    [component EXCEPT !.customData =
        Some([SpreadOf(component.customData) EXCEPT
                !.parsers      = Some(<<parser>>),
                !.previousData = Some(existingRef)])]

\* the entity `merge` puts in place of the existing one: lines 187-228
MergedEntity(existing, component, parser) ==
    [name              |-> IF TruthyChars(component.name) THEN component.name ELSE existing.name,
     description       |-> mergeDescriptions(existing.description, component.description),
     category          |-> LET c == OrElse(component.category, existing.category)
                           IN  IF c = Absent THEN Undefined ELSE c,
     tags              |-> mergeTags(existing.tags, component.tags),
     importPath        |-> LET p == OrElse(component.importPath, existing.importPath)
                           IN  IF p = Absent THEN Undefined ELSE p,
     props             |-> mergeProps(existing.props, component.props),
     slots             |-> mergeSlots(existing.slots, component.slots),
     examples          |-> mergeExamples(existing.examples, component.examples),
     dependencies      |-> mergeDependencies(existing.dependencies, component.dependencies),
     relatedComponents |-> mergeRelatedComponents(existing.relatedComponents,
                                                  component.relatedComponents),
     accessibility     |-> mergeAccessibility(existing.accessibility, component.accessibility),
     customData        |->
        Some([SpreadCustomData(SpreadOf(existing.customData), SpreadOf(component.customData))
              EXCEPT
                !.parsers      = Some(Append(OrEmpty(SpreadOf(existing.customData).parsers), parser)),
                !.contribution = EntrySet(@, parser,
                                          [description   |-> component.description,
                                           tags          |-> component.tags,
                                           props         |-> component.props,
                                           accessibility |-> component.accessibility])])]

\* faulty variant: the map of the previous call is kept
RetainedComponentMap(old) == old

\* const componentMap = new Map(): line 141
NewComponentMap(old) == <<>>

\* an object and everything reachable from it through `<parser>_data` and
\* `previousData`, as a value
RECURSIVE DeepValue(_, _)
DeepValue(objs, ref) ==
    LET o == objs[ref]
    IN  IF ~IsSome(o.customData) THEN o
        ELSE LET cd == Get(o.customData)
             IN  [o EXCEPT !.customData = Some([cd EXCEPT
                    !.data = [k \in 1..Len(cd.data) |->
                                 [key |-> cd.data[k].key, value |-> DeepValue(objs, cd.data[k].value)]],
                    !.previousData = IF IsSome(cd.previousData)
                                     THEN Some(DeepValue(objs, Get(cd.previousData)))
                                     ELSE None])]

\* entry of mergeResults(): lines 139-141
MergeStart ==
    /\ mpc \in {"idle", "returned"}
    /\ Len(outputs) < 2
    /\ IF Len(mergeArgs.results) = 0
       THEN /\ outputs' = Append(outputs, <<>>)
            /\ mpc' = "returned"
            /\ UNCHANGED <<componentMap, pos>>
       ELSE /\ componentMap' = NewComponentMap(componentMap)
            /\ pos' = 1
            /\ mpc' = "loop"
            /\ UNCHANGED outputs
    /\ UNCHANGED <<mergeArgs, objects>>
    /\ UNCHANGED outsideMerge

\* one turn of the inner loop: lines 144-233
MergeRecord ==
    /\ mpc = "loop"
    /\ pos <= Len(RecordsOf(mergeArgs.results))
    /\ LET rec       == RecordsOf(mergeArgs.results)[pos]
           component == objects[rec.ref]
           fresh     == Len(objects) + 1
       IN  IF component.name = UndefinedName
           THEN \* TypeError: cannot read properties of undefined (line 145)
                /\ mpc' = "threw"
                /\ UNCHANGED <<objects, componentMap, pos>>
           ELSE /\ mpc' = mpc
                /\ pos' = pos + 1
                /\ IF ~EntryHas(componentMap, KeyOf(component))
                   THEN LET seed == SeedRef(rec.ref, fresh)
                        IN  /\ objects' = IF seed = fresh
                                           THEN Append(objects, SeededEntity(component, rec.parser))
                                           ELSE [objects EXCEPT ![seed] =
                                                    SeededEntity(component, rec.parser)]
                            /\ componentMap' = EntrySet(componentMap, KeyOf(component), seed)
                   ELSE LET existingRef == EntryGet(componentMap, KeyOf(component))
                            existing    == objects[existingRef]
                        IN  CASE mergeArgs.strategy = "append" ->
                                   /\ objects' = [objects EXCEPT ![existingRef].customData =
                                                     AppendedCustomData(existing, rec.ref, rec.parser)]
                                   /\ UNCHANGED componentMap
                              [] mergeArgs.strategy = "override" ->
                                   /\ objects' = Append(objects,
                                                     OverridingEntity(component, existingRef, rec.parser))
                                   /\ componentMap' = EntrySet(componentMap, KeyOf(component), fresh)
                              [] OTHER ->
                                   /\ objects' = Append(objects,
                                                     MergedEntity(existing, component, rec.parser))
                                   /\ componentMap' = EntrySet(componentMap, KeyOf(component), fresh)
    /\ UNCHANGED <<mergeArgs, outputs>>
    /\ UNCHANGED outsideMerge

\* return Array.from(componentMap.values()): line 236
MergeReturn ==
    /\ mpc = "loop"
    /\ pos > Len(RecordsOf(mergeArgs.results))
    /\ outputs' = Append(outputs, [k \in 1..Len(componentMap) |->
                                      DeepValue(objects, componentMap[k].value)])
    /\ mpc' = "returned"
    /\ UNCHANGED <<mergeArgs, objects, componentMap, pos>>
    /\ UNCHANGED outsideMerge

NextMerge ==
    \/ MergeStart
    \/ MergeRecord
    \/ MergeReturn


\* ---------------------------------------------------- inputs of mergeResults
\* strategy: 'append' | 'merge' | 'override' (line 137)
Strategies == {"append", "merge", "override"}

\* a ComponentAnalysis carrying only its required fields
PlainComponent(name) ==
    [name |-> name, description |-> <<"x">>, category |-> Absent, tags |-> None,
     importPath |-> Absent, props |-> None, slots |-> None, examples |-> None,
     dependencies |-> None, relatedComponents |-> None, accessibility |-> None,
     customData |-> None]

\* the ParseResult list holding the first k of recs, a pair <<parser, component>>
\* each: consecutive records of one parser are the components of one ParseResult
RECURSIVE ResultsFrom(_, _)
ResultsFrom(recs, k) ==
    IF k = 0 THEN <<>>
    ELSE LET before == ResultsFrom(recs, k - 1)
             n      == Len(before)
         IN  IF n > 0 /\ before[n].parser = recs[k][1]
             THEN [before EXCEPT ![n].components = Append(@, k)]
             ELSE Append(before, [parser |-> recs[k][1], components |-> <<k>>])

\* a ParserChain on which mergeResults(results, strategy) is about to be called,
\* the records of `results` drawn from Family and produced by parsers of Names
\* and `strategy` one of strategies
MergeInit(Names, Family, maxRecords, strategies) ==
    /\ NoExecute
    /\ NoAgent
    /\ NoRuns
    /\ \E recs \in SeqsUpTo(Names \X Family, maxRecords), strategy \in strategies :
          /\ mergeArgs = [results |-> ResultsFrom(recs, Len(recs)), strategy |-> strategy]
          /\ objects = [k \in 1..Len(recs) |-> recs[k][2]]
    /\ mpc = "idle"
    /\ componentMap = <<>>
    /\ pos = 1
    /\ outputs = <<>>

\* component names as analyzers spell them: "Button", "button", " Button ",
\* an empty name, and a record that carries no name
ComponentNames == { <<"B">>, <<"b">>, <<" ", "B", " ">>, <<>>, UndefinedName }

NamedComponents == { PlainComponent(name) : name \in ComponentNames }

InitNames == MergeInit(ParserNames, NamedComponents, MaxRecords, Strategies)

SpecNames == InitNames /\ [][NextMerge]_vars


\* -------------------------------------------------- inputs: partial records
\* the optional fields of ComponentAnalysis
OptionalFields ==
    {"category", "tags", "importPath", "props", "slots", "examples", "dependencies",
     "relatedComponents", "accessibility", "customData"}

\* a record of component "b" carrying exactly the optional fields in `present`
PartialComponent(present) ==
    [name              |-> <<"b">>,
     description       |-> <<"x">>,
     category          |-> IF "category" \in present THEN "forms" ELSE Absent,
     tags              |-> IF "tags" \in present THEN Some(<<"a">>) ELSE None,
     importPath        |-> IF "importPath" \in present THEN "@ds/b" ELSE Absent,
     props             |-> IF "props" \in present
                           THEN Some(<<[name |-> "size", type |-> "string", required |-> "false",
                                        defaultValue |-> "md", description |-> "the size"]>>)
                           ELSE None,
     slots             |-> IF "slots" \in present
                           THEN Some(<<[name |-> "icon", description |-> "leading icon",
                                        required |-> "false"]>>)
                           ELSE None,
     examples          |-> IF "examples" \in present
                           THEN Some(<<[title |-> "Primary", code |-> "<b/>"]>>)
                           ELSE None,
     dependencies      |-> IF "dependencies" \in present THEN Some(<<"react">>) ELSE None,
     relatedComponents |-> IF "relatedComponents" \in present THEN Some(<<"link">>) ELSE None,
     accessibility     |-> IF "accessibility" \in present
                           THEN Some(<<[type |-> <<"semantic-role">>, value |-> <<"button">>]>>)
                           ELSE None,
     customData        |-> IF "customData" \in present
                           THEN Some([EmptyCustomData EXCEPT
                                        !.own = <<[key |-> "storybook", value |-> "meta"]>>])
                           ELSE None]

\* which optional fields a record carries: all, none, all but one, only one
PresenceProfiles ==
    {OptionalFields, {}} \cup { OptionalFields \ {f} : f \in OptionalFields }
                         \cup { {f} : f \in OptionalFields }

PartialComponents == { PartialComponent(present) : present \in PresenceProfiles }

InitPartial == MergeInit({"storybook"}, PartialComponents, MaxPartial, Strategies)

\* ------------------------------------------- inputs: records of two parsers
\* records of components "b" and "c" that can be told apart by their tags and by
\* the customData their parser attached
TaggedComponent(name, tag, customData) ==
    [PlainComponent(name) EXCEPT !.tags = Some(<<tag>>), !.customData = customData]

TaggedComponents ==
    { TaggedComponent(name, "a", None) : name \in { <<"b">>, <<"c">> } }
    \cup
    { TaggedComponent(name, "b", Some([EmptyCustomData EXCEPT
                                          !.own = <<[key |-> "storybook", value |-> "meta"]>>])) :
          name \in { <<"b">>, <<"c">> } }

InitMerge == MergeInit(ParserNames, TaggedComponents, MaxRecords, Strategies)

SpecMerge == InitMerge /\ [][NextMerge]_vars

\* ------------------------------------------------------ inputs: descriptions
\* descriptions of every length up to MaxLength, two of each length
Descriptions == { [k \in 1..n |-> ch] : n \in 0..MaxLength, ch \in {"x", "y"} }

DescribedComponents == { [PlainComponent(<<"b">>) EXCEPT !.description = d] : d \in Descriptions }

InitDescriptions == MergeInit({"storybook"}, DescribedComponents, MaxRecords, {"merge"})

\* ------------------------------------------------------ inputs: string lists
\* a string[] field: undefined, empty, or values that repeat within and across records
StringLists ==
    {None, Some(<<>>), Some(<<"a">>), Some(<<"b">>), Some(<<"a", "b">>), Some(<<"b", "a">>),
     Some(<<"a", "a">>)}

\* records whose tags, dependencies and relatedComponents carry the list
ListedComponents ==
    { [PlainComponent(<<"b">>) EXCEPT !.tags = l, !.dependencies = l, !.relatedComponents = l] :
          l \in StringLists }

InitLists == MergeInit({"storybook"}, ListedComponents, MaxRecords, {"merge"})

\* ------------------------------------------------------------ inputs: props
\* PropDefinition objects for prop "size": with a default and a description, with
\* other ones, with both keys holding undefined (as StorybookParser.parse builds a
\* prop that documents neither), and with no defaultValue key and an empty description
SizeProps ==
    { [name |-> "size", type |-> "string", required |-> "false",
       defaultValue |-> v[1], description |-> v[2]] :
          v \in { <<"md", "small to large">>, <<"lg", "t-shirt size">>,
                   <<Undefined, Undefined>>, <<Absent, "">> } }

\* and one for prop "kind"
KindProps ==
    { [name |-> "kind", type |-> "string", required |-> "false",
       defaultValue |-> "primary", description |-> "visual style"] }

\* a props field: undefined, empty, one prop, or "size" and "kind" in either order
PropLists ==
    {None, Some(<<>>)}
    \cup { Some(<<p>>) : p \in SizeProps \cup KindProps }
    \cup { Some(<<p, q>>) : p \in SizeProps, q \in KindProps }
    \cup { Some(<<q, p>>) : p \in SizeProps, q \in KindProps }

PropComponents == { [PlainComponent(<<"b">>) EXCEPT !.props = l] : l \in PropLists }

InitProps == MergeInit({"storybook"}, PropComponents, MaxPartial, {"merge"})

\* ------------------------------------------------------------ inputs: slots
\* SlotDefinition objects for slot "icon": described, described otherwise, with an
\* empty description, with the key holding undefined, and without the key
IconSlots ==
    { [name |-> "icon", required |-> "false", description |-> d] :
          d \in {"leading icon", "an icon", "", Undefined, Absent} }

\* and one for slot "label"
LabelSlots ==
    { [name |-> "label", required |-> "false", description |-> "the text"] }

\* a slots field: undefined, empty, one slot, or "icon" and "label" in either order
SlotLists ==
    {None, Some(<<>>)}
    \cup { Some(<<p>>) : p \in IconSlots \cup LabelSlots }
    \cup { Some(<<p, q>>) : p \in IconSlots, q \in LabelSlots }
    \cup { Some(<<q, p>>) : p \in IconSlots, q \in LabelSlots }

SlotComponents == { [PlainComponent(<<"b">>) EXCEPT !.slots = l] : l \in SlotLists }

InitSlots == MergeInit({"storybook"}, SlotComponents, MaxPartial, {"merge"})

\* --------------------------------------------------------- inputs: examples
Example(title, code) == [title |-> title, code |-> code]

\* an examples field: undefined, empty, one or two examples, titles repeating
\* across records with other code and once within a record
ExampleLists ==
    {None, Some(<<>>),
     Some(<<Example("Primary", "v1")>>), Some(<<Example("Primary", "v2")>>),
     Some(<<Example("Large", "v1")>>),
     Some(<<Example("Primary", "v1"), Example("Large", "v1")>>),
     Some(<<Example("Large", "v2"), Example("Primary", "v2")>>),
     Some(<<Example("Primary", "v1"), Example("Primary", "v2")>>)}

ExampleComponents == { [PlainComponent(<<"b">>) EXCEPT !.examples = l] : l \in ExampleLists }

InitExamples == MergeInit({"storybook"}, ExampleComponents, MaxPartial, {"merge"})

\* ---------------------------------------------------- inputs: accessibility
\* AccessibilityInfo: type is one of the declared literals, value any string; both
\* kept as tuples of pieces so that the key `${type}:${value}` is a concatenation
Note(type, value, description) == [type |-> type, value |-> value, description |-> description]

\* an accessibility field: undefined, empty, notes that agree in type or in value
\* only, a value that holds a colon, a pair repeating across records with another
\* description and once within a record
NoteLists ==
    {None, Some(<<>>),
     Some(<<Note(<<"other">>, <<"x">>, "first")>>),
     Some(<<Note(<<"other">>, <<"x">>, "second")>>),
     Some(<<Note(<<"aria-label">>, <<"x">>, "first")>>),
     Some(<<Note(<<"other">>, <<"x", ":", "y">>, "first")>>),
     Some(<<Note(<<"other">>, <<"x">>, "first"), Note(<<"aria-label">>, <<"x">>, "first")>>),
     Some(<<Note(<<"aria-label">>, <<"x">>, "second"), Note(<<"other">>, <<"x">>, "second")>>),
     Some(<<Note(<<"other">>, <<"x">>, "first"), Note(<<"other">>, <<"x">>, "second")>>)}

NoteComponents == { [PlainComponent(<<"b">>) EXCEPT !.accessibility = l] : l \in NoteLists }

InitNotes == MergeInit({"storybook"}, NoteComponents, MaxPartial, {"merge"})

\* ------------------------------------------- inputs: name, category, importPath
\* records of one component spelled "B" or "b", whose category and importPath are
\* missing, undefined, empty or one of two values
Located(name, category, importPath) ==
    [PlainComponent(name) EXCEPT !.category = category, !.importPath = importPath]

LocatedComponents ==
    { Located(<<"B">>, Absent, Absent),
      Located(<<"b">>, "", Undefined),
      Located(<<"B">>, Undefined, ""),
      Located(<<"b">>, "forms", "@ds/forms"),
      Located(<<"B">>, "layout", Absent),
      Located(<<"b">>, Absent, "@ds/b") }

InitLocated == MergeInit({"storybook"}, LocatedComponents, MaxRecords, {"merge"})

\* mergeResults over records of one component that differ in one family of fields
InitFields ==
    \/ InitPartial
    \/ InitDescriptions
    \/ InitLists
    \/ InitProps
    \/ InitSlots
    \/ InitExamples
    \/ InitNotes
    \/ InitLocated

SpecFields == InitFields /\ [][NextMerge]_vars

\* ===================================================== claims: mergeResults
\* String.prototype.trim on a tuple of characters
RECURSIVE Trim(_)
Trim(s) ==
    IF s = <<>> THEN s
    ELSE IF Head(s) = " " THEN Trim(Tail(s))
    ELSE IF s[Len(s)] = " " THEN Trim(SubSeq(s, 1, Len(s) - 1))
    ELSE s

\* the identity the specification gives a record: its name lower-cased and trimmed
Identity(name) == Trim(ToLowerCase(name))

\* the calls of mergeResults that returned, and the entities of a returned list
ReturnedCalls == 1..Len(outputs)
EntitiesOf(c) == 1..Len(outputs[c])

\* C11: under every strategy, records whose names differ only in letter case or in
\* leading/trailing whitespace are folded into one merged entity: no returned list
\* holds two entities whose names are equal once lower-cased and trimmed.
C11_FoldedByTrimmedLowerCaseName ==
    \A c \in ReturnedCalls : \A j, k \in EntitiesOf(c) :
        j # k => Identity(outputs[c][j].name) # Identity(outputs[c][k].name)

\* C12: a record whose name is empty is dropped: it produces no merged entity, under
\* every strategy; no returned list holds an entity with an empty name.
C12_EmptyNameDropped ==
    \A c \in ReturnedCalls : \A k \in EntitiesOf(c) : outputs[c][k].name # <<>>


\* the records passed to mergeResults, and the number of them
Records    == RecordsOf(mergeArgs.results)
NumRecords == Len(Records)

\* every record carries a non-empty name / every record has the same key
AllNamed == \A k \in 1..NumRecords : TruthyChars(objects[k].name)
OneKey   == \A j, k \in 1..NumRecords : KeyOf(objects[j]) = KeyOf(objects[k])

\* when all records share one key, every record processed creates one entity under
\* `merge` and `override`: the record an entity object was created for
RecordOfEntity(j) == ((j - NumRecords - 1) % NumRecords) + 1
EntityObjects     == (NumRecords + 1)..Len(objects)

\* under `merge` with one key: the entity objects made from an existing entity and
\* a later record
MergedObjects ==
    IF mergeArgs.strategy = "merge" /\ OneKey
    THEN { j \in EntityObjects : RecordOfEntity(j) >= 2 }
    ELSE {}
\* the later record entity object j was made from
NewOf(j) == objects[Records[RecordOfEntity(j)].ref]

\* the values of an optional list, as a set
ValuesOf(o) == { OrEmpty(o)[k] : k \in 1..Len(OrEmpty(o)) }

\* what reading an optional string field yields: undefined when the key is missing
Read(v) == IF v = Absent THEN Undefined ELSE v

\* the optional fields of ComponentAnalysis that hold arrays
ListFields ==
    {"tags", "props", "slots", "examples", "dependencies", "relatedComponents", "accessibility"}

\* C13: mergeResults never fails on partial records: when every record has a non-empty
\* name, whatever optional fields are absent, no strategy throws, and under `merge` an
\* absent field counts as empty: the merged list is defined and holds the items of the
\* side that has the field, an absent category or importPath leaves the existing one,
\* an absent customData adds no key.
C13_PartialRecordsNeverFail ==
    AllNamed =>
        /\ mpc # "threw"
        /\ \A j \in MergedObjects :
              LET existing == objects[j - 1]
                  new      == NewOf(j)
                  merged   == objects[j]
              IN  /\ \A f \in ListFields :
                        /\ IsSome(merged[f])
                        /\ ~IsSome(new[f]) => ValuesOf(merged[f]) = ValuesOf(existing[f])
                        /\ ~IsSome(existing[f]) => ValuesOf(merged[f]) = ValuesOf(new[f])
                  /\ \A f \in {"category", "importPath"} :
                        new[f] = Absent => Read(merged[f]) = Read(existing[f])
                  /\ ~IsSome(new.customData) =>
                        Get(merged.customData).own = SpreadOf(existing.customData).own

\* two records without any optional field were merged, and the entity's lists are empty
C13_Witness ==
    /\ mpc = "returned"
    /\ mergeArgs.strategy = "merge"
    /\ NumRecords >= 2
    /\ objects[1] = PartialComponent({})
    /\ objects[2] = PartialComponent({})
    /\ outputs[1][1].props = Some(<<>>)
    /\ outputs[1][1].tags = Some(<<>>)


\* the parsers customData.parsers of an entity value lists
ParsersOf(e) == OrEmpty(Get(e.customData).parsers)

\* C14: mergeResults is repeatable: a second call on the same result list with the
\* same strategy returns a list equal to the first call's, entity by entity and
\* field by field, under each strategy.
C14_SecondCallEqualsFirst ==
    Len(outputs) = 2 => outputs[2] = outputs[1]

\* both calls returned, and an entity of the second list was built from two records
C14_Witness ==
    /\ Len(outputs) = 2
    /\ \E k \in EntitiesOf(2) :
          \/ Len(ParsersOf(outputs[2][k])) >= 2
          \/ IsSome(Get(outputs[2][k].customData).previousData)


\* the records with the key of entity value e, in the order mergeResults meets them
ContributorsOf(e) == SelectSeq(Records, LAMBDA r : KeyOf(objects[r.ref]) = KeyOf(e))

\* the normalized fields of a record or an entity
NormalizedFields(e) ==
    [name |-> e.name, description |-> e.description, category |-> e.category,
     tags |-> e.tags, importPath |-> e.importPath, props |-> e.props, slots |-> e.slots,
     examples |-> e.examples, dependencies |-> e.dependencies,
     relatedComponents |-> e.relatedComponents, accessibility |-> e.accessibility]

\* the record customData holds under `<parser>_data` is the record r
StoredVerbatim(e, r) ==
    \E k \in 1..Len(Get(e.customData).data) :
        /\ Get(e.customData).data[k].key = r.parser
        /\ Get(e.customData).data[k].value = objects[r.ref]

\* what `append` keeps of the first-seen record and lists of the later ones
AppendKeepsFirstSeen(e) ==
    LET rs == ContributorsOf(e)
    IN  /\ NormalizedFields(e) = NormalizedFields(objects[rs[1].ref])
        /\ ParsersOf(e) = [k \in 1..Len(rs) |-> rs[k].parser]

\* C15: under `append` the entity keeps the first-seen record's normalized
\* fields, lists every contributing parser, and every later record is retrievable
\* from customData under '<parser>_data'.
C15_AppendKeepsEveryLaterRecord ==
    mergeArgs.strategy = "append" =>
        \A c \in ReturnedCalls : \A n \in EntitiesOf(c) :
            LET e  == outputs[c][n]
                rs == ContributorsOf(e)
            IN  /\ AppendKeepsFirstSeen(e)
                /\ \A k \in 2..Len(rs) : StoredVerbatim(e, rs[k])


\* an entity value followed by its previousData snapshots, newest first
RECURSIVE SnapshotChain(_)
SnapshotChain(e) ==
    IF IsSome(Get(e.customData).previousData)
    THEN <<e>> \o SnapshotChain(Get(Get(e.customData).previousData))
    ELSE <<e>>

\* entity value e is what record r alone gives: r's normalized fields and own
\* customData keys, and r's parser as the only contributor
StateAfter(e, r) ==
    /\ NormalizedFields(e) = NormalizedFields(objects[r.ref])
    /\ Get(e.customData).own = SpreadOf(objects[r.ref].customData).own
    /\ ParsersOf(e) = <<r.parser>>

\* C16: under `override` the entity's normalized fields are those of the latest record
\* of its key, and after n records the chain of customData.previousData snapshots
\* holds the n-1 earlier states of the entity, newest first.
C16_OverrideKeepsSnapshotChain ==
    mergeArgs.strategy = "override" =>
        \A c \in ReturnedCalls : \A n \in EntitiesOf(c) :
            LET e     == outputs[c][n]
                rs    == ContributorsOf(e)
                chain == SnapshotChain(e)
            IN  /\ Len(chain) = Len(rs)
                /\ \A k \in 1..Len(chain) : StateAfter(chain[k], rs[Len(rs) - k + 1])

\* `override` returned an entity that received three records: two snapshots are kept
C16_Witness ==
    /\ mergeArgs.strategy = "override"
    /\ \E c \in ReturnedCalls : \E n \in EntitiesOf(c) :
          /\ Len(SnapshotChain(outputs[c][n])) = 3
          /\ outputs[c][n].tags # SnapshotChain(outputs[c][n])[2].tags



\* C17: under `merge` the merged description is the new record's exactly when the new
\* description is non-empty and the existing one is empty or the new one is more than
\* 1.5 times as long; otherwise the existing description is kept.
C17_DescriptionPolicy ==
    \A j \in MergedObjects :
        LET existing == objects[j - 1].description
            newDesc  == NewOf(j).description
        IN  objects[j].description =
                IF newDesc # <<>> /\ (existing = <<>> \/ 2 * Len(newDesc) > 3 * Len(existing))
                THEN newDesc
                ELSE existing

\* a new description exactly 1.5 times as long as the existing one was met and the
\* existing one kept, then one twice as long replaced it
C17_Witness ==
    /\ mpc = "returned"
    /\ \E j \in MergedObjects :
          /\ j + 1 \in MergedObjects
          /\ Len(objects[j - 1].description) = 2
          /\ Len(NewOf(j).description) = 3
          /\ Len(objects[j].description) = 2
          /\ Len(objects[j + 1].description) = 4


\* a list is the union of the sets: each value of each set, nothing else, none twice
IsUnionOf(list, sets) ==
    /\ ValuesOf(list) = UNION sets
    /\ Cardinality(ValuesOf(list)) = Len(OrEmpty(list))

\* the records that went into entity object j: the first RecordOfEntity(j) records
ContributorsTo(j) == { objects[Records[k].ref] : k \in 1..RecordOfEntity(j) }

\* C18: under `merge`, each of tags, dependencies and relatedComponents of an entity
\* that received two or more records is the set union of that field over those records.
C18_StringListsAreSetUnions ==
    \A j \in MergedObjects :
        /\ IsUnionOf(objects[j].tags, { ValuesOf(r.tags) : r \in ContributorsTo(j) })
        /\ IsUnionOf(objects[j].dependencies,
                     { ValuesOf(r.dependencies) : r \in ContributorsTo(j) })
        /\ IsUnionOf(objects[j].relatedComponents,
                     { ValuesOf(r.relatedComponents) : r \in ContributorsTo(j) })

\* records with overlapping lists were merged: ['a'], then ['b','a'], then none
C18_Witness ==
    /\ mpc = "returned"
    /\ \E j \in MergedObjects :
          /\ RecordOfEntity(j) = 3
          /\ objects[j - 2].dependencies = Some(<<"a">>)
          /\ objects[j - 1].dependencies = Some(<<"a", "b">>)
          /\ NewOf(j - 1).dependencies = Some(<<"b", "a">>)
          /\ NewOf(j).dependencies = None
          /\ objects[j].dependencies = Some(<<"a", "b">>)


\* the field is defined: its key is present and does not hold undefined
Defined(v) == v \notin {Absent, Undefined}

\* the items of list whose name no item of seen has
Unseen(list, seen) ==
    SelectSeq(list, LAMBDA p : \A k \in 1..Len(seen) : seen[k].name # p.name)

\* merged is existing with the defined fields of p written over it, the description
\* only when p's is non-empty
PropReconciled(merged, existing, p) ==
    /\ merged.name = existing.name
    /\ \A f \in {"type", "required", "defaultValue"} :
          Read(merged[f]) = IF Defined(p[f]) THEN p[f] ELSE Read(existing[f])
    /\ Read(merged.description) =
          IF Truthy(p.description) THEN p.description ELSE Read(existing.description)

\* C19: under `merge`, props are reconciled by name: an existing prop keeps its
\* position and each of its fields is replaced only by a defined field of the new prop
\* of that name (its description only by a non-empty one); props with unseen names
\* are appended after the existing ones.
C19_PropsReconciledByName ==
    \A j \in MergedObjects :
        LET existing == OrEmpty(objects[j - 1].props)
            newProps == OrEmpty(NewOf(j).props)
            merged   == OrEmpty(objects[j].props)
            unseen   == Unseen(newProps, existing)
        IN  /\ Len(merged) = Len(existing) + Len(unseen)
            /\ \A k \in 1..Len(existing) :
                  IF \E n \in 1..Len(newProps) : newProps[n].name = existing[k].name
                  THEN \A n \in 1..Len(newProps) :
                          newProps[n].name = existing[k].name
                              => PropReconciled(merged[k], existing[k], newProps[n])
                  ELSE merged[k] = existing[k]
            /\ \A k \in 1..Len(unseen) : merged[Len(existing) + k] = unseen[k]


\* C20: under `merge`, slots are reconciled by name like props: slots with unseen names
\* are appended after the existing ones, and an existing slot keeps its position and
\* its description unless the new slot of that name has a non-empty description.
C20_SlotsReconciledByName ==
    \A j \in MergedObjects :
        LET existing == OrEmpty(objects[j - 1].slots)
            newSlots == OrEmpty(NewOf(j).slots)
            merged   == OrEmpty(objects[j].slots)
            unseen   == Unseen(newSlots, existing)
        IN  /\ Len(merged) = Len(existing) + Len(unseen)
            /\ \A k \in 1..Len(existing) :
                  /\ merged[k].name = existing[k].name
                  /\ \A n \in 1..Len(newSlots) :
                        newSlots[n].name = existing[k].name =>
                            IF Truthy(newSlots[n].description)
                            THEN merged[k].description = newSlots[n].description
                            ELSE Truthy(existing[k].description)
                                    => merged[k].description = existing[k].description
            /\ \A k \in 1..Len(unseen) : merged[Len(existing) + k] = unseen[k]


\* the items of list, in order, whose title no item of seen has
UnseenTitles(list, seen) ==
    SelectSeq(list, LAMBDA x : \A k \in 1..Len(seen) : seen[k].title # x.title)

\* the first item of each title of list, in order
RECURSIVE FirstOfEachTitle(_)
FirstOfEachTitle(list) ==
    IF list = <<>> THEN <<>>
    ELSE LET front == FirstOfEachTitle(SubSeq(list, 1, Len(list) - 1))
             last  == list[Len(list)]
         IN  IF \E k \in 1..Len(front) : front[k].title = last.title
             THEN front ELSE Append(front, last)

\* C21: under `merge`, examples are keyed by title, first seen wins: the examples the
\* entity already has stay as they are and where they are, and the examples of the new
\* record whose title is new follow them in the new record's order.
C21_ExamplesFirstSeenWins ==
    \A j \in MergedObjects :
        LET existing == OrEmpty(objects[j - 1].examples)
            merged   == OrEmpty(objects[j].examples)
            unseen   == UnseenTitles(OrEmpty(NewOf(j).examples), existing)
        IN  /\ Len(merged) >= Len(existing)
            /\ SubSeq(merged, 1, Len(existing)) = existing
            /\ SubSeq(merged, Len(existing) + 1, Len(merged)) \in {unseen, FirstOfEachTitle(unseen)}


\* the accessibility notes of the first k records, in the order they are met
RECURSIVE NotesUpTo(_)
NotesUpTo(k) ==
    IF k = 0 THEN <<>> ELSE NotesUpTo(k - 1) \o OrEmpty(objects[Records[k].ref].accessibility)

\* the (type, value) pair of a note
PairOf(note) == <<note.type, note.value>>

\* the first note of list with the pair of note
FirstWithPair(list, note) ==
    list[CHOOSE k \in 1..Len(list) :
            /\ PairOf(list[k]) = PairOf(note)
            /\ \A before \in 1..(k - 1) : PairOf(list[before]) # PairOf(note)]

\* C22: under `merge`, the accessibility notes of an entity that received two or more
\* records are the set union keyed by (type, value): every pair of every contributing
\* record occurs, no other pair, no pair twice, and the note kept for a pair is the
\* first one seen.
C22_NotesAreUnionByTypeAndValue ==
    \A j \in MergedObjects :
        LET merged == OrEmpty(objects[j].accessibility)
            seen   == NotesUpTo(RecordOfEntity(j))
        IN  /\ { PairOf(merged[k]) : k \in 1..Len(merged) }
                  = { PairOf(seen[k]) : k \in 1..Len(seen) }
            /\ \A k, n \in 1..Len(merged) : k # n => PairOf(merged[k]) # PairOf(merged[n])
            /\ \A k \in 1..Len(merged) : merged[k] = FirstWithPair(seen, merged[k])


\* the first k records, as objects, in the order they are met
RecordAt(k) == objects[Records[k].ref]

\* of the first k records, the latest whose field f is present and non-empty
LatestWith(f, k) ==
    LET having == { n \in 1..k : Truthy(RecordAt(n)[f]) }
    IN  CHOOSE n \in having : \A other \in having : other <= n

\* C23: under `merge`, name, category and importPath follow last-non-empty-wins: after
\* folding the records of one entity each field is the value of the latest record in
\* which it is present and non-empty.
C23_LastNonEmptyWins ==
    \A j \in MergedObjects :
        LET k == RecordOfEntity(j)
        IN  /\ \A f \in {"category", "importPath"} :
                  (\E n \in 1..k : Truthy(RecordAt(n)[f]))
                      => objects[j][f] = RecordAt(LatestWith(f, k))[f]
            /\ (\E n \in 1..k : TruthyChars(RecordAt(n).name))
                  => objects[j].name =
                        RecordAt(CHOOSE n \in 1..k :
                                    /\ TruthyChars(RecordAt(n).name)
                                    /\ \A later \in (n + 1)..k : ~TruthyChars(RecordAt(later).name)).name

\* "forms", then "layout", then an empty category were folded: "layout" stays, and
\* the name is the last record's spelling
C23_Witness ==
    /\ mpc = "returned"
    /\ \E j \in MergedObjects :
          /\ RecordOfEntity(j) = 3
          /\ RecordAt(1).category = "forms"
          /\ RecordAt(2).category = "layout"
          /\ RecordAt(3).category = ""
          /\ objects[j].category = "layout"
          /\ objects[j].importPath = "@ds/forms"
          /\ objects[j].name = <<"b">>


\* the parsers of the records with the key of entity value e, in the order met
ContributingParsers(e) ==
    [k \in 1..Len(ContributorsOf(e)) |-> ContributorsOf(e)[k].parser]

\* C24 as stated: under every strategy customData.parsers of a merged entity lists the
\* parsers of all records met for the entity, in the order met.
C24_ParsersListsEveryContributor ==
    \A c \in ReturnedCalls : \A n \in EntitiesOf(c) :
        ParsersOf(outputs[c][n]) = ContributingParsers(outputs[c][n])

\* C24: under `append` and `merge` customData.parsers of a merged entity lists the
\* parsers of all records met for the entity, in the order met; under `override` it
\* lists the parser of the latest record only.
C24_ParsersListsContributorsUnlessOverridden ==
    \A c \in ReturnedCalls : \A n \in EntitiesOf(c) :
        LET e  == outputs[c][n]
            ps == ContributingParsers(e)
        IN  IF mergeArgs.strategy = "override"
            THEN ParsersOf(e) = <<ps[Len(ps)]>>
            ELSE ParsersOf(e) = ps

\* an entity that received records of storybook, comments and storybook again was
\* returned, under `merge` or `append`
C24_Witness ==
    /\ mergeArgs.strategy # "override"
    /\ \E c \in ReturnedCalls : \E n \in EntitiesOf(c) :
          ParsersOf(outputs[c][n]) = <<"storybook", "comments", "storybook">>


\* the keys of the records in the order met, and of the entities of returned list c
RecordKeys    == [k \in 1..NumRecords |-> KeyOf(RecordAt(k))]
EntityKeys(c) == [n \in 1..Len(outputs[c]) |-> KeyOf(outputs[c][n])]

\* C26: under every strategy mergeResults returns one entity per distinct key of the
\* input, ordered by the first occurrence of the key; an empty list gives an empty list.
C26_OneEntityPerKeyInFirstSeenOrder ==
    \A c \in ReturnedCalls : EntityKeys(c) = ArrayFromSet(RecordKeys)

\* key "b", then another key, then "b" again under `override`: two entities are
\* returned, the replaced one still first
C26_Witness ==
    /\ mergeArgs.strategy = "override"
    /\ NumRecords = 3
    /\ \E c \in ReturnedCalls :
          /\ Len(outputs[c]) = 2
          /\ KeyOf(RecordAt(1)) = KeyOf(RecordAt(3))
          /\ RecordAt(1).name # RecordAt(3).name
          /\ outputs[c][1].name = RecordAt(3).name



\* C29: under `merge`, while the records of one entity are folded in, the merged
\* description is the empty string or the description of one of the records seen so
\* far, and it is never shorter than it was before the fold step.
C29_DescriptionFromARecordAndNeverShorter ==
    \A j \in MergedObjects :
        /\ \/ objects[j].description = <<>>
           \/ \E n \in 1..RecordOfEntity(j) : objects[j].description = RecordAt(n).description
        /\ Len(objects[j].description) >= Len(objects[j - 1].description)

\* descriptions of lengths 1, 3 and 2 were folded: the merged one went 1, 3, 3
C29_Witness ==
    /\ mpc = "returned"
    /\ \E j \in MergedObjects :
          /\ RecordOfEntity(j) = 3
          /\ Len(RecordAt(1).description) = 1
          /\ Len(RecordAt(2).description) = 3
          /\ Len(RecordAt(3).description) = 2
          /\ objects[j].description = RecordAt(2).description


\* C30: mergeResults leaves its input unchanged under every strategy: no step of a
\* call changes the `results` list or any component record in it, customData and lists
\* included, also when several records share a key.
C30_InputUnchanged ==
    [][ /\ mergeArgs' = mergeArgs
        /\ \A k \in 1..NumRecords : objects'[k] = objects[k] ]_vars

\* `append` returned an entity built from two records while the first record still
\* carries no customData of its own
C30_Witness ==
    /\ mpc = "returned"
    /\ mergeArgs.strategy = "append"
    /\ NumRecords >= 2
    /\ KeyOf(RecordAt(1)) = KeyOf(RecordAt(2))
    /\ RecordAt(1).customData = None
    /\ Len(ParsersOf(outputs[1][1])) >= 2

\* ================================================================== agent
\* Agent.sendMessage / Agent.processMessage, with `storage` left at its default null

\* const MAX_DEPTH: line 86
MAX_DEPTH == 5

MaxTools == 1        \* tools registered on one Agent

ToolNames == {"search"}

\* what the model may answer: text only, or tool calls (an empty list, one call, two
\* calls, a call of a name nobody registered); usage may be missing
ToolCallLists == { <<>>, <<"search">>, <<"search", "search">>, <<"lookup">> }
Completions ==
    [content : {"text"}, tool_calls : {None} \cup { Some(l) : l \in ToolCallLists },
     usage : {None, Some(1)}]

\* what a tool handler resolves with besides its message: `actions`, optional
ToolActions == { None, Some(<<"a">>) }

\* the answer of the depth guard: lines 89-96
MaxDepthAnswer ==
    [role |-> "assistant",
     content |-> "Maximum processing depth reached. Please try a simpler request.",
     tool_calls |-> None]

\* faulty variant: the guard lets depth MAX_DEPTH through
DepthReachedLate(d) == d > MAX_DEPTH

\* if (depth >= MAX_DEPTH): line 87
DepthReached(d) == d >= MAX_DEPTH

\* res?.usage?.total_tokens ?? 0: lines 109, 161
TotalTokens(res) == IF IsSome(res.usage) THEN Get(res.usage) ELSE 0

\* tools[name] of the map built by this.tools.reduce: lines 118-121, 131
HasHandler(name) == \E k \in 1..Len(tools) : tools[k] = name

\* toolActions.filter((a) => !messageActions.includes(a)): lines 143-146
NotIncluded(toolActions, messageActions) ==
    SelectSeq(toolActions, LAMBDA a : \A k \in 1..Len(messageActions) : messageActions[k] # a)

\* one activation of processMessage up to its first await: lines 73-99
\* made is the number of requests this sendMessage has issued so far
ProcessMessage(msgs, choice, toks, acts, d, made) ==
    /\ messages' = msgs
    /\ toolChoice' = choice
    /\ tokens' = toks
    /\ actions' = acts
    /\ depth' = d
    /\ pending' = <<>>
    /\ IF DepthReached(d)
       THEN /\ answer' = MaxDepthAnswer
            /\ apc' = "answered"
            /\ requests' = made
       ELSE /\ answer' = answer
            /\ apc' = "requesting"
            /\ requests' = made + 1

\* addTool: lines 65-67
addTool(name) ==
    /\ apc = "idle"
    /\ Len(tools) < MaxTools
    /\ tools' = Append(tools, name)
    /\ UNCHANGED <<apc, messages, toolChoice, depth, tokens, actions, pending, completion,
                   answer, requests, invocations>>
    /\ UNCHANGED outsideAgent

\* sendMessage with storage = null and the default settings, up to the await of the
\* first request: lines 166-226
sendMessage ==
    /\ apc \in {"idle", "returned", "threw"}
    /\ ProcessMessage(<<"system", "user">>, "unset", 0, <<>>, 0, 0)
    /\ invocations' = 0
    /\ UNCHANGED <<tools, completion>>
    /\ UNCHANGED outsideAgent

\* the request resolves: lines 99-150.  Without tool_calls the answer is returned;
\* with tool_calls (an empty list too) every call's handler is started in order, and
\* a name without a handler rejects the whole round
ModelResponds(res) ==
    /\ apc = "requesting"
    /\ completion' = res
    /\ IF ~IsSome(res.tool_calls)
       THEN /\ answer' = [role |-> "assistant", content |-> res.content, tool_calls |-> None]
            /\ tokens' = tokens + TotalTokens(res)
            /\ apc' = "answered"
            /\ UNCHANGED <<messages, pending, invocations>>
       ELSE LET toolCalls == Get(res.tool_calls)
                started == [k \in 1..Len(toolCalls) |->
                              [name |-> toolCalls[k],
                               state |-> IF HasHandler(toolCalls[k]) THEN "running" ELSE "rejected"]]
            IN  /\ messages' = Append(messages, "assistant")
                /\ pending' = started
                /\ invocations' = invocations
                                  + Cardinality({ k \in 1..Len(started) : started[k].state = "running" })
                /\ apc' = IF \E k \in 1..Len(started) : started[k].state = "rejected"
                          THEN "threw" ELSE "handling"
                /\ UNCHANGED <<answer, tokens>>
    /\ UNCHANGED <<tools, toolChoice, depth, actions, requests>>
    /\ UNCHANGED outsideAgent

\* the request rejects (network error, the client's 30 s timeout): line 99
ModelRejects ==
    /\ apc = "requesting"
    /\ apc' = "threw"
    /\ UNCHANGED <<tools, messages, toolChoice, depth, tokens, actions, pending, completion,
                   answer, requests, invocations>>
    /\ UNCHANGED outsideAgent

\* one handler resolves: lines 133-148
ToolResolves(k, toolActions) ==
    /\ apc = "handling"
    /\ k \in 1..Len(pending)
    /\ pending[k].state = "running"
    /\ pending' = [pending EXCEPT ![k].state = "done"]
    /\ actions' = IF IsSome(toolActions) /\ Len(Get(toolActions)) > 0
                  THEN actions \o NotIncluded(Get(toolActions), actions)
                  ELSE actions
    /\ UNCHANGED <<tools, apc, messages, toolChoice, depth, tokens, completion, answer,
                   requests, invocations>>
    /\ UNCHANGED outsideAgent

\* one handler rejects (validate fails, the handler throws): Promise.all rejects
ToolRejects(k) ==
    /\ apc = "handling"
    /\ k \in 1..Len(pending)
    /\ pending[k].state = "running"
    /\ pending' = [pending EXCEPT ![k].state = "rejected"]
    /\ apc' = "threw"
    /\ UNCHANGED <<tools, messages, toolChoice, depth, tokens, actions, completion, answer,
                   requests, invocations>>
    /\ UNCHANGED outsideAgent

\* every handler resolved: the responses are pushed and processMessage calls itself
\* with depth + 1: lines 152-164
Recurse ==
    /\ apc = "handling"
    /\ \A k \in 1..Len(pending) : pending[k].state = "done"
    /\ ProcessMessage(messages \o [k \in 1..Len(pending) |-> "tool"], "none",
                      tokens + TotalTokens(completion), actions, depth + 1, requests)
    /\ UNCHANGED <<tools, completion, invocations>>
    /\ UNCHANGED outsideAgent

\* sendMessage returns answer.content: lines 222-232
SendMessageReturns ==
    /\ apc = "answered"
    /\ apc' = "returned"
    /\ UNCHANGED <<tools, messages, toolChoice, depth, tokens, actions, pending, completion,
                   answer, requests, invocations>>
    /\ UNCHANGED outsideAgent

\* the awaited promises settle
Settles ==
    \/ \E res \in Completions : ModelResponds(res)
    \/ ModelRejects
    \/ \E k \in 1..Len(pending), toolActions \in ToolActions : ToolResolves(k, toolActions)
    \/ \E k \in 1..Len(pending) : ToolRejects(k)

NextAgent ==
    \/ \E name \in ToolNames : addTool(name)
    \/ sendMessage
    \/ \E res \in Completions : ModelResponds(res)
    \/ ModelRejects
    \/ \E k \in 1..Len(pending), toolActions \in ToolActions : ToolResolves(k, toolActions)
    \/ \E k \in 1..Len(pending) : ToolRejects(k)
    \/ Recurse
    \/ SendMessageReturns

\* every awaited promise settles, and a continuation that can run does run
SpecAgent ==
    /\ Init
    /\ [][NextAgent]_vars
    /\ WF_vars(Settles)
    /\ WF_vars(Recurse)
    /\ WF_vars(SendMessageReturns)


\* ===================================================== execute, two calls in flight
\* Two execute() calls on one ParserChain, interleaving at `await parser.parse(...)`.
\* Each call has its own activation record (runs[c]); array and ParseResult objects
\* live in stores both calls can reach.

\* the two calls
Calls == {1, 2}

MaxChain == 2        \* entries of the config of a call

\* configs of such a call: enabled entries without weight, and continueOnError
RunConfigs ==
    { cfg \in ParserChainConfigs :
        /\ Len(cfg.parsers) <= MaxChain
        /\ \A n \in 1..Len(cfg.parsers) : cfg.parsers[n].enabled /\ ~cfg.parsers[n].hasWeight }

\* a ParserChain with the parsers registered, no execute() call made yet
InitRuns ==
    /\ \E reg \in {<<"storybook", "comments">>} : parsers = reg
    /\ pc = "idle"
    /\ config = [parsers |-> <<>>, continueOnError |-> TRUE]
    /\ enabledParsers = <<>>
    /\ i = 1
    /\ arrays = << <<>> >>
    /\ heap = <<>>
    /\ returnedAs = <<>>
    /\ diagnostics = <<>>
    /\ calls = <<>>
    /\ outcome = [kind |-> "none", value |-> 0, message |-> <<>>]
    /\ NoMerge
    /\ NoAgent
    /\ NoRuns

\* faulty variant: `results` is one array of the ParserChain, used by every call
ResultsOfChain(c) == 1

\* const results: ParseResult[] = [] is a local of the call: line 40
ResultsOf(c) == c

\* faulty variant: `diagnostics` is one array of the ParserChain
DiagnosticsOfChain(rs, c) ==
    IF Len(rs) = 0 THEN <<>> ELSE rs[1].diagnostics \o (IF c = 1 THEN <<>> ELSE rs[c].diagnostics)

\* const diagnostics: Diagnostic[] = [] is a local of the call: line 41
DiagnosticsOf(rs, c) == rs[c].diagnostics

\* entry of execute(): lines 40-50
RunStart(cfg) ==
    /\ Len(runs) + 1 \in Calls
    /\ runs' = Append(runs, [pc |-> "loop", continueOnError |-> cfg.continueOnError,
                             enabledParsers |-> SelectEnabled(cfg.parsers, parsers),
                             i |-> 1, diagnostics |-> <<>>])
    /\ resultArrays' = Append(resultArrays, <<>>)
    /\ UNCHANGED <<produced, handed>>
    /\ UNCHANGED outsideRuns

\* the catch block of call c: lines 92-117
RunCatch(c, name, msg) ==
    LET run == runs[c]
        diagnostic == [diagnostic |-> FailureDiagnostic(name, msg), call |-> c]
    IN  runs' = [runs EXCEPT ![c] =
                    [run EXCEPT !.diagnostics = Append(run.diagnostics, diagnostic),
                                !.pc = IF ~run.continueOnError THEN "thrown" ELSE "loop",
                                !.i  = IF ~run.continueOnError THEN run.i ELSE run.i + 1]]

\* one turn of the loop of call c up to its await: lines 58-83
RunCallParser(c, can, msg) ==
    /\ c \in 1..Len(runs)
    /\ runs[c].pc = "loop"
    /\ runs[c].i <= Len(runs[c].enabledParsers)
    /\ LET entry == runs[c].enabledParsers[runs[c].i]
       IN  CASE can = "false" ->
                  /\ runs' = [runs EXCEPT ![c].i = @ + 1]
                  /\ UNCHANGED handed
             [] can = "throw" ->
                  /\ RunCatch(c, entry.name, msg)
                  /\ UNCHANGED handed
             [] can = "true" ->
                  /\ handed' = handed \cup {[call |-> c, parser |-> entry.name,
                                             previousResults |-> resultArrays[ResultsOf(c)]]}
                  /\ runs' = [runs EXCEPT ![c].pc = "awaiting"]
    /\ UNCHANGED <<resultArrays, produced>>
    /\ UNCHANGED outsideRuns

\* `await parser.parse(parserContext)` of call c resolves: lines 83-84
RunParseResolves(c) ==
    /\ c \in 1..Len(runs)
    /\ runs[c].pc = "awaiting"
    /\ LET entry == runs[c].enabledParsers[runs[c].i]
           ref   == Len(produced) + 1
       IN  /\ produced' = Append(produced, [result |-> NewParseResult(entry.name), call |-> c,
                                            chainDiagnostics |-> <<>>])
           /\ resultArrays' = [resultArrays EXCEPT ![ResultsOf(c)] = Append(@, ref)]
    /\ runs' = [runs EXCEPT ![c].i = @ + 1, ![c].pc = "loop"]
    /\ UNCHANGED handed
    /\ UNCHANGED outsideRuns

\* `await parser.parse(parserContext)` of call c rejects: lines 83, 92-117
RunParseRejects(c, msg) ==
    /\ c \in 1..Len(runs)
    /\ runs[c].pc = "awaiting"
    /\ RunCatch(c, runs[c].enabledParsers[runs[c].i].name, msg)
    /\ UNCHANGED <<resultArrays, produced, handed>>
    /\ UNCHANGED outsideRuns

\* call c after its loop: lines 120-129.  The chain-level diagnostics go onto the
\* last element of `results`
RunReturn(c) ==
    /\ c \in 1..Len(runs)
    /\ runs[c].pc = "loop"
    /\ runs[c].i > Len(runs[c].enabledParsers)
    /\ LET res   == resultArrays[ResultsOf(c)]
           diags == DiagnosticsOf(runs, c)
       IN  produced' = IF Len(diags) > 0 /\ Len(res) > 0
                       THEN [produced EXCEPT ![res[Len(res)]].chainDiagnostics = @ \o diags]
                       ELSE produced
    /\ runs' = [runs EXCEPT ![c].pc = "returned"]
    /\ UNCHANGED <<resultArrays, handed>>
    /\ UNCHANGED outsideRuns

NextRuns ==
    \/ \E cfg \in RunConfigs : RunStart(cfg)
    \/ \E c \in Calls, can \in {"true", "false", "throw"}, msg \in ErrorMessages :
          RunCallParser(c, can, msg)
    \/ \E c \in Calls : RunParseResolves(c)
    \/ \E c \in Calls, msg \in ErrorMessages : RunParseRejects(c, msg)
    \/ \E c \in Calls : RunReturn(c)

SpecRuns == InitRuns /\ [][NextRuns]_vars


\* ============================================================== claims: agent
\* the call is over: processMessage resolved or rejected
Settled == apc \in {"answered", "returned", "threw"}

\* C27: the tool-call loop terminates.  Whatever the model answers, one sendMessage
\* issues at most MAX_DEPTH (5) model requests; the activation at depth 5 issues no
\* request, starts no tool handler and resolves to the fixed 'Maximum processing
\* depth reached' answer; and every call that has a request outstanding comes to an
\* end.
C27_ToolLoopTerminates ==
    /\ [](requests <= MAX_DEPTH /\ depth <= MAX_DEPTH)
    /\ [][ depth' = MAX_DEPTH =>
              /\ requests' = requests
              /\ invocations' = invocations
              /\ answer' = MaxDepthAnswer
              /\ apc' \in {"answered", "returned"} ]_vars
    /\ (apc = "requesting" ~> Settled)

\* the model asked for tool calls in each of its five answers, and the call returned
\* the fixed answer after five requests
C27_Witness ==
    /\ apc = "returned"
    /\ depth = MAX_DEPTH
    /\ requests = MAX_DEPTH
    /\ invocations >= MAX_DEPTH
    /\ answer = MaxDepthAnswer


\* ================================================= claims: execute, two calls
\* the ParseResult objects of seq were all made by call c
MadeBy(seq, c) == \A k \in 1..Len(seq) : produced[seq[k]].call = c

\* C25: with two execute calls of one ParserChain in flight and interleaving at their
\* awaits, the `results` of each call and every previousResults snapshot a call hands
\* to a parser hold only results made by that call, and the chain diagnostics put on
\* a result are those of the call that made it.
C25_RunsAreIsolated ==
    /\ \A c \in 1..Len(runs) : MadeBy(resultArrays[ResultsOf(c)], c)
    /\ \A h \in handed : MadeBy(h.previousResults, h.call)
    /\ \A r \in 1..Len(produced) :
          \A k \in 1..Len(produced[r].chainDiagnostics) :
              produced[r].chainDiagnostics[k].call = produced[r].call

\* both calls returned after interleaving (a result of the second call was made
\* between two of the first); the first handed a parser a non-empty snapshot and the
\* second put a diagnostic on its last result
C25_Witness ==
    /\ Len(runs) = 2
    /\ runs[1].pc = "returned" /\ runs[2].pc = "returned"
    /\ \E a, b, d \in 1..Len(produced) :
          a < b /\ b < d /\ produced[a].call = 1 /\ produced[b].call = 2 /\ produced[d].call = 1
    /\ \E h \in handed : h.call = 1 /\ Len(h.previousResults) > 0
    /\ \E r \in 1..Len(produced) :
          produced[r].call = 2 /\ Len(produced[r].chainDiagnostics) > 0

\* ============================================================ claims: execute
\* C28: a parser whose canParse throws is handled like one whose parse throws: parse
\* is not invoked for its entry, an error-level diagnostic naming it is recorded in
\* the order of the failures, and execute aborts there when continueOnError is false
\* and goes on when it is true.
C28_CanParseThrowHandledLikeParseThrow ==
    LET cs == calls
    IN  \A k \in 1..Len(cs) :
            (cs[k].op = "canParse" /\ cs[k].out = "throw") =>
                /\ \A m \in 1..Len(cs) : cs[m].op = "parse" => cs[m].idx # cs[k].idx
                /\ LET n == Cardinality({ m \in 1..k : Failed(cs[m]) })
                   IN  n <= Len(diagnostics) /\ Reports(diagnostics[n], cs[k])
                /\ IF config.continueOnError
                   THEN pc # "thrown"
                   ELSE pc = "thrown" /\ k = Len(cs)

\* canParse of one parser threw, and a later parser was still parsed and the call
\* returned
C28_Witness ==
    /\ pc = "returned"
    /\ \E k, l \in 1..Len(calls) :
          /\ k < l
          /\ calls[k].op = "canParse" /\ calls[k].out = "throw"
          /\ calls[l].op = "parse" /\ calls[l].out = "ok"

====
